---- MODULE Spec2Model ----
(***************************************************************************)
(* Verification model of "The Watch" (yasminjamal6/IR-PROJECT):            *)
(*   - src/src/tools/geocoder.py          Geocoder.geocode and its chain   *)
(*   - src/src/database/chroma_manager.py check_duplicate,                 *)
(*                                        check_similar_incident,          *)
(*                                        store_incident                   *)
(*   - src/src/agents/graph_orchestrator.py store_incident_node            *)
(*   - src/src/tools/risk_calculator.py   RiskCalculator.calculate_risk    *)
(*   - src/src/models/schemas.py          RiskAssessment.calculate_risk_level *)
(*                                                                         *)
(* Units.  Python floats are modelled in fixed point:                      *)
(*   coordinates   1e-4 degree      (32.0853 -> 320853)                    *)
(*   distances     metres                                                  *)
(*   similarity    1/100            (0.4 -> 40)                            *)
(*   confidence    1/100            (0.9 -> 90)                            *)
(*   risk scores   1e-6             (10.0 -> 10000000)                     *)
(*   time          hours                                                   *)
(* Python strings are sequences of one-character strings; a value that may *)
(* be None is a record [isNone, s].                                        *)
(***************************************************************************)
EXTENDS Integers, Sequences, FiniteSets, TLC

VARIABLES
    client,     \* Geocoder.client: TRUE iff a Google Maps client is configured
    cache,      \* Geocoder.cache: cache key -> GeocodingResult
    geoOut,     \* outcome of the last Geocoder.geocode call
    geoSeen,    \* (location, city) pair -> outcome of the first geocode call for it
    geoCalls,   \* number of geocode calls made so far
    store,      \* the Chroma collection: sequence of stored documents
    ingestOut,  \* outcome of the last store_incident_node run
    pc,         \* per worker: position inside store_incident_node
    job,        \* per worker: the pipeline state the worker is storing
    simIn,      \* arguments of check_similar_incident (candidate, ranked list)
    simOut,     \* result of check_similar_incident
    riskIn,     \* arguments of calculate_risk
    riskOut,    \* result of calculate_risk and the incident dicts after the call
    queryOut,   \* result of the analyst pipeline's retrieve and risk nodes
    pipeOut     \* outcome of the last run of the whole processing graph

vars == <<client, cache, geoOut, geoSeen, geoCalls, store, ingestOut, pc, job,
          simIn, simOut, riskIn, riskOut, queryOut, pipeOut>>

(***************************************************************************)
(* Python strings                                                          *)
(***************************************************************************)

\* Python None for an Optional[str] argument
NoneStr == [isNone |-> TRUE, s |-> <<>>]

Some(s) == [isNone |-> FALSE, s |-> s]

\* str(v) as an f-string formats it: None becomes the text "None"
PyStr(v) == IF v.isNone THEN <<"N", "o", "n", "e">> ELSE v.s

\* truthiness of an Optional[str]: None and "" are falsy
Truthy(v) == ~v.isNone /\ v.s # <<>>

\* the letters of the modelled texts, lower case -> upper case
UpperOf == [h |-> "H", l |-> "L", n |-> "N", t |-> "T", a |-> "A", s |-> "S", x |-> "X"]

\* upper case -> lower case
LowerOf == [H |-> "h", L |-> "l", N |-> "n", T |-> "t", A |-> "a", S |-> "s", X |-> "x"]

LowerChar(c) == IF c \in DOMAIN LowerOf THEN LowerOf[c] ELSE c

UpperChar(c) == IF c \in DOMAIN UpperOf THEN UpperOf[c] ELSE c

\* str.lower()
Lower(s) == [i \in DOMAIN s |-> LowerChar(s[i])]

IsLetter(c) == c \in DOMAIN LowerOf \/ c \in DOMAIN UpperOf

\* str.title(): first letter of every word upper-cased, the rest lower-cased
Title(s) ==
    [i \in DOMAIN s |->
        IF i = 1 \/ ~IsLetter(s[i - 1]) THEN UpperChar(s[i]) ELSE LowerChar(s[i])]

\* `sub in s` for strings
Contains(s, sub) ==
    \E i \in 1..(Len(s) - Len(sub) + 1) : SubSeq(s, i, i + Len(sub) - 1) = sub

RECURSIVE LStrip(_)
LStrip(s) == IF s # <<>> /\ s[1] = " " THEN LStrip(Tail(s)) ELSE s

RECURSIVE RStrip(_)
RStrip(s) == IF s # <<>> /\ s[Len(s)] = " " THEN RStrip(SubSeq(s, 1, Len(s) - 1)) ELSE s

\* str.strip()
Strip(s) == RStrip(LStrip(s))

(***************************************************************************)
(* src/src/tools/geocoder.py                                               *)
(***************************************************************************)

\* KNOWN_LOCATIONS, in insertion order (dict iteration order).  Three of the
\* table's keys are kept: its first key "tel aviv", "haifa" and the short
\* key "lod".
KNOWN_LOCATIONS ==
    << [name |-> <<"t", "e", "l", " ", "a", "v", "i", "v">>, lat |-> 320853, lon |-> 347818],
       [name |-> <<"h", "a", "i", "f", "a">>,               lat |-> 327940, lon |-> 349896],
       [name |-> <<"l", "o", "d">>,                         lat |-> 319514, lon |-> 348917] >>

\* GeocodingResult(success=False, error=...): the dataclass defaults
FailResult ==
    [none |-> FALSE, success |-> FALSE, latitude |-> 0, longitude |-> 0,
     formatted_address |-> <<>>, method |-> "unknown", confidence |-> 0]

\* `result = None`
NoResult == [FailResult EXCEPT !.none = TRUE]

OkResult(lat, lon, addr, method, conf) ==
    [none |-> FALSE, success |-> TRUE, latitude |-> lat, longitude |-> lon,
     formatted_address |-> addr, method |-> method, confidence |-> conf]

\* the rough bounds of Israel: 29.0 <= lat <= 34.0 and 34.0 <= lon <= 36.0
InIsraelBounds(lat, lon) ==
    /\ 290000 <= lat /\ lat <= 340000
    /\ 340000 <= lon /\ lon <= 360000

\* What the Google Maps client may do on one call: raise (ApiError, Timeout,
\* transport error), return no result, or return a first result at some point.
\* "inA"/"inB" lie inside the bounds, "out" outside (New York).
Answers == {"raise", "none", "inA", "inB", "out"}

AnswerPoint(a) ==
    CASE a = "inA" -> [lat |-> 327000, lon |-> 350000, addr |-> <<"A">>]
      [] a = "inB" -> [lat |-> 310000, lon |-> 348000, addr |-> <<"B">>]
      [] OTHER     -> [lat |-> 407128, lon |-> -740060, addr |-> <<"X">>]

\* Geocoder._try_google_geocoding(query, city) given the client's answer.
\* A None query raises AttributeError inside the try block (query.lower() /
\* search_query.lower()), which `except Exception` turns into a failure.
TryGoogleGeocoding(query, city, answer) ==
    IF query.isNone \/ answer \in {"raise", "none"} THEN FailResult
    ELSE LET p == AnswerPoint(answer) IN
         IF InIsraelBounds(p.lat, p.lon)
         THEN OkResult(p.lat, p.lon, p.addr, "google_geocoding", 90)
         ELSE FailResult

\* a place search that returns the client's first result wherever it lies
TryGooglePlacesAnywhere(landmark, city, answer) ==
    IF answer \in {"raise", "none"} THEN FailResult
    ELSE LET p == AnswerPoint(answer) IN
         OkResult(p.lat, p.lon, p.addr, "google_places", 85)

\* Geocoder._try_google_places(landmark, city) given the client's answer.
\* f"{landmark} in {city}" never raises, so the client is always called.
TryGooglePlaces(landmark, city, answer) ==
    IF answer \in {"raise", "none"} THEN FailResult
    ELSE LET p == AnswerPoint(answer) IN
         IF InIsraelBounds(p.lat, p.lon)
         THEN OkResult(p.lat, p.lon, p.addr, "google_places", 85)
         ELSE FailResult

\* index of the first KNOWN_LOCATIONS entry satisfying the partial-match test
FirstPartial(location_lower) ==
    LET hits == {i \in DOMAIN KNOWN_LOCATIONS :
                    \/ Contains(location_lower, KNOWN_LOCATIONS[i].name)
                    \/ Contains(KNOWN_LOCATIONS[i].name, location_lower)}
    IN IF hits = {} THEN 0 ELSE CHOOSE i \in hits : \A j \in hits : i <= j

\* the gazetteer lookup with a partial hit rated like an exact one
TryKnownLocationsFlat(location) ==
    LET location_lower == Strip(Lower(location))
        exact == {i \in DOMAIN KNOWN_LOCATIONS : KNOWN_LOCATIONS[i].name = location_lower}
        part  == FirstPartial(location_lower)
    IN IF exact # {}
       THEN LET e == KNOWN_LOCATIONS[CHOOSE i \in exact : TRUE] IN
            OkResult(e.lat, e.lon, Title(location), "known_locations", 70)
       ELSE IF part # 0
       THEN LET e == KNOWN_LOCATIONS[part] IN
            OkResult(e.lat, e.lon, Title(e.name), "known_locations_partial", 70)
       ELSE FailResult

\* the gazetteer lookup with the partial match left out
TryKnownLocationsExact(location) ==
    LET location_lower == Strip(Lower(location))
        exact == {i \in DOMAIN KNOWN_LOCATIONS : KNOWN_LOCATIONS[i].name = location_lower}
    IN IF exact # {}
       THEN LET e == KNOWN_LOCATIONS[CHOOSE i \in exact : TRUE] IN
            OkResult(e.lat, e.lon, Title(location), "known_locations", 70)
       ELSE FailResult

\* Geocoder._try_known_locations(location), location a str
TryKnownLocations(location) ==
    LET location_lower == Strip(Lower(location))
        exact == {i \in DOMAIN KNOWN_LOCATIONS : KNOWN_LOCATIONS[i].name = location_lower}
        part  == FirstPartial(location_lower)
    IN IF exact # {}
       THEN LET e == KNOWN_LOCATIONS[CHOOSE i \in exact : TRUE] IN
            OkResult(e.lat, e.lon, Title(location), "known_locations", 70)
       ELSE IF part # 0
       THEN LET e == KNOWN_LOCATIONS[part] IN
            OkResult(e.lat, e.lon, Title(e.name), "known_locations_partial", 60)
       ELSE FailResult

\* the " (approximate)" suffix of the text-extraction address
ApproxSuffix == <<" ", "(", "~", ")">>

\* Geocoder._extract_and_fallback(text), text a str (None raises in the caller)
ExtractAndFallback(text) ==
    LET text_lower == Lower(text)
        hits == {i \in DOMAIN KNOWN_LOCATIONS : Contains(text_lower, KNOWN_LOCATIONS[i].name)}
    IN IF hits # {}
       THEN LET e == KNOWN_LOCATIONS[CHOOSE i \in hits : \A j \in hits : i <= j] IN
            OkResult(e.lat, e.lon, Title(e.name) \o ApproxSuffix, "text_extraction_fallback", 40)
       ELSE [none |-> FALSE, success |-> FALSE, latitude |-> 320000, longitude |-> 350000,
             formatted_address |-> <<"?">>, method |-> "default_fallback", confidence |-> 10]

\* a cache key that tells an absent city from every city text
CacheKeyNoneApart(loc, city) ==
    Lower(PyStr(loc) \o <<"|">> \o (IF city.isNone THEN <<"|">> ELSE city.s))

\* cache_key = f"{location_description}|{city}".lower()
CacheKey(loc, city) == Lower(PyStr(loc) \o <<"|">> \o PyStr(city))

\* GeocodedLocation(...) built from a GeocodingResult
GeocodedLocation(r) ==
    [latitude |-> r.latitude, longitude |-> r.longitude,
     formatted_address |-> r.formatted_address,
     geocode_method |-> r.method, confidence |-> r.confidence]

\* an outcome that carries no GeocodedLocation (the call raised)
NoLocation ==
    [latitude |-> 0, longitude |-> 0, formatted_address |-> <<>>,
     geocode_method |-> "", confidence |-> 0]

\* `not result or not result.success`
Failed(r) == r.none \/ ~r.success

\* One later strategy of the Google block: it runs when the result so far is
\* not a success and cond holds; s = [res, trace] is the state before it.
GoogleStep(s, cond, r, tag) ==
    IF ~s.res.success /\ cond
    THEN [res |-> r, trace |-> s.trace \o <<tag>>]
    ELSE s

\* Strategies 1-3 of geocode (lines 279-288): state after the Google block.
\* env = [g1, g2, p]: the client's answers to the three possible calls.
GoogleBlock(cl, loc, city, env) ==
    IF ~cl THEN [res |-> NoResult, trace |-> <<>>]
    ELSE GoogleStep(
           GoogleStep([res |-> TryGoogleGeocoding(loc, city, env.g1),
                       trace |-> <<"geocoding">>],
                      Truthy(city), TryGoogleGeocoding(city, NoneStr, env.g2),
                      "geocoding_city"),
           TRUE, TryGooglePlaces(loc, city, env.p), "places")

\* One gazetteer lookup of strategy 4: it runs when the result so far failed
\* and cond holds.
KnownStep(s, cond, text, tag) ==
    IF Failed(s.res) /\ cond
    THEN [res |-> TryKnownLocations(text), trace |-> s.trace \o <<tag>>]
    ELSE s

\* A variant of strategy 4 that looks the city up before the full address
KnownBlockCityFirst(g, loc, city) ==
    KnownStep(
      KnownStep(
        KnownStep(g, Truthy(city), city.s, "known_city"),
        Truthy(loc) /\ Truthy(city), loc.s \o <<" ">> \o city.s, "known_full"),
      Truthy(loc), loc.s, "known_text")

\* Strategy 4 of geocode (lines 291-303): the three gazetteer lookups
KnownBlock(g, loc, city) ==
    KnownStep(
      KnownStep(
        KnownStep(g, Truthy(loc) /\ Truthy(city), loc.s \o <<" ">> \o city.s, "known_full"),
        Truthy(city), city.s, "known_city"),
      Truthy(loc), loc.s, "known_text")

\* Strategy 5 of geocode (lines 306-307).  `result.success` on a None result
\* raises AttributeError; text.lower() on a None text raises AttributeError.
\* Neither is caught inside geocode.
FallbackBlock(k, loc) ==
    IF k.res.none THEN [res |-> k.res, trace |-> k.trace, raised |-> TRUE]
    ELSE IF k.res.success THEN [res |-> k.res, trace |-> k.trace, raised |-> FALSE]
    ELSE IF loc.isNone
         THEN [res |-> k.res, trace |-> k.trace \o <<"extract">>, raised |-> TRUE]
         ELSE [res |-> ExtractAndFallback(loc.s), trace |-> k.trace \o <<"extract">>,
               raised |-> FALSE]

\* a geocode that caches successful results only
CacheSuccessOnly(ch, key, f) ==
    IF f.raised
    THEN [raised |-> TRUE, hit |-> FALSE, ret |-> NoLocation, trace |-> f.trace, cache |-> ch]
    ELSE [raised |-> FALSE, hit |-> FALSE, ret |-> GeocodedLocation(f.res),
          trace |-> f.trace,
          cache |-> IF f.res.success
                    THEN [x \in DOMAIN ch \cup {key} |-> IF x = key THEN f.res ELSE ch[x]]
                    ELSE ch]

\* lines 309-318: cache the result and build the GeocodedLocation; f is the
\* state after strategy 5.  A raise leaves the cache as it was.
CacheAndReturn(ch, key, f) ==
    IF f.raised
    THEN [raised |-> TRUE, hit |-> FALSE, ret |-> NoLocation, trace |-> f.trace, cache |-> ch]
    ELSE [raised |-> FALSE, hit |-> FALSE, ret |-> GeocodedLocation(f.res),
          trace |-> f.trace,
          cache |-> [x \in DOMAIN ch \cup {key} |-> IF x = key THEN f.res ELSE ch[x]]]

\* lines 264-274: the cache lookup; on a miss the strategies run
CacheLookup(ch, key, cl, loc, city, env) ==
    IF key \in DOMAIN ch
    THEN [raised |-> FALSE, hit |-> TRUE, ret |-> GeocodedLocation(ch[key]),
          trace |-> <<>>, cache |-> ch]
    ELSE CacheAndReturn(ch, key,
           FallbackBlock(KnownBlock(GoogleBlock(cl, loc, city, env), loc, city), loc))

\* Geocoder.geocode(location_description, city) on a Geocoder whose cache is
\* ch.  Returns the outcome and the cache afterwards.
GeocodeRun(ch, cl, loc, city, env) ==
    CacheLookup(ch, CacheKey(loc, city), cl, loc, city, env)

(***************************************************************************)
(* The Geocoder as a state machine                                         *)
(***************************************************************************)

\* number of geocode calls explored on one Geocoder
MaxGeoCalls == 2

tHaifa == <<"H", "a", "i", "f", "a">>

tLodSt == <<"l", "o", "d", " ", "s", "t">>

tXy == <<"x", "y">>

\* location_description arguments: absent, empty, a gazetteer key, a text
\* containing a gazetteer key, an unknown text
LocTexts == {NoneStr, Some(<<>>), Some(tHaifa), Some(tLodSt), Some(tXy)}

\* city arguments: absent, empty, a gazetteer key, an unknown city
CityHints == {NoneStr, Some(<<>>), Some(tHaifa), Some(tXy)}

\* Further argument pairs: the city text "None" beside the absent city of
\* LocTexts \X CityHints, and two pairs that split "x|y|x" at different bars
AliasPairs ==
    {<<Some(tXy), Some(<<"N", "o", "n", "e">>)>>,
     <<Some(<<"x", "|", "y">>), Some(<<"x">>)>>,
     <<Some(<<"x">>), Some(<<"y", "|", "x">>)>>}

\* the (location_description, city) arguments of the modelled calls
GeocodePairs == (LocTexts \X CityHints) \cup AliasPairs

\* the client's answers to the three possible calls of one geocode run
Envs == [g1 : Answers, g2 : Answers, p : Answers]

\* Which of the three client calls geocode(loc, city) makes when the first
\* two are answered as e says; live: a client is configured and the cache
\* misses.  A None location raises before the first call is made.
Consulted(live, loc, city, e) ==
    [g1 |-> live /\ ~loc.isNone,
     g2 |-> live /\ ~TryGoogleGeocoding(loc, city, e.g1).success /\ Truthy(city),
     p  |-> live /\ ~GoogleStep([res |-> TryGoogleGeocoding(loc, city, e.g1), trace |-> <<>>],
                                Truthy(city), TryGoogleGeocoding(city, NoneStr, e.g2),
                                "").res.success]

\* The answers a geocode(loc, city) run can observe: a call that is never
\* made has the placeholder answer "none".
AnswersWhen(live, loc, city) ==
    {e \in Envs :
        \A c \in {"g1", "g2", "p"} : ~Consulted(live, loc, city, e)[c] => e[c] = "none"}

ClientAnswers(ch, cl, loc, city) ==
    AnswersWhen(cl /\ CacheKey(loc, city) \notin DOMAIN ch, loc, city)

NoAnswers == [g1 |-> "none", g2 |-> "none", p |-> "none"]

GeoIdleOut ==
    [called |-> FALSE, again |-> FALSE, loc |-> NoneStr, city |-> NoneStr,
     env |-> NoAnswers, raised |-> FALSE, hit |-> FALSE, ret |-> NoLocation, trace |-> <<>>]

\* Geocoder.__init__: self.client = gmaps, self.cache = {}
GeoInit ==
    /\ client \in BOOLEAN
    /\ cache = <<>>
    /\ geoOut = GeoIdleOut
    /\ geoSeen = <<>>
    /\ geoCalls = 0

GeoIdle ==
    /\ client = FALSE
    /\ cache = <<>>
    /\ geoOut = GeoIdleOut
    /\ geoSeen = <<>>
    /\ geoCalls = 0

geoVars == <<client, cache, geoOut, geoSeen, geoCalls>>

\* the call's outcome r recorded: geoOut is the last outcome (with the
\* client's answers env during the call), geoSeen the first outcome of every
\* pair asked so far
Record(r, loc, city, env, pair) ==
    /\ cache' = r.cache
    /\ geoOut' = [called |-> TRUE, again |-> pair \in DOMAIN geoSeen,
                  loc |-> loc, city |-> city, env |-> env, raised |-> r.raised,
                  hit |-> r.hit, ret |-> r.ret, trace |-> r.trace]
    /\ geoSeen' = IF pair \in DOMAIN geoSeen THEN geoSeen
                  ELSE [x \in DOMAIN geoSeen \cup {pair} |->
                          IF x = pair THEN [raised |-> r.raised, ret |-> r.ret]
                          ELSE geoSeen[x]]

\* one call geocode(loc, city), with the client answering as env says
Geocode(loc, city, env) ==
    /\ geoCalls' = geoCalls + 1
    /\ Record(GeocodeRun(cache, client, loc, city, env), loc, city, env, <<loc, city>>)
    /\ UNCHANGED client

(***************************************************************************)
(* Timestamps and distances                                                *)
(***************************************************************************)

\* A datetime: wall-clock hour t, and a UTC offset off when aware.
AwareTime(t, off) == [t |-> t, aware |-> TRUE, off |-> off]

NaiveTime(t) == [t |-> t, aware |-> FALSE, off |-> 0]

\* datetime - timedelta(hours=h) keeps awareness and offset
MinusHours(dt, h) == [dt EXCEPT !.t = dt.t - h]

\* the UTC instant of an aware datetime
Instant(dt) == dt.t - dt.off

\* datetime.isoformat(): the metadata string keeps the wall clock and, for an
\* aware datetime, the "+hh:00" / "-hh:00" suffix.  kind "missing" is the
\* empty string, kind "bad" a string fromisoformat rejects.
IsoFormat(dt) == [kind |-> "iso", t |-> dt.t, aware |-> dt.aware, off |-> dt.off]

MissingStamp == [kind |-> "missing", t |-> 0, aware |-> FALSE, off |-> 0]

BadStamp == [kind |-> "bad", t |-> 0, aware |-> FALSE, off |-> 0]

\* datetime.fromisoformat on a well-formed metadata string
FromIsoFormat(str) == [t |-> str.t, aware |-> str.aware, off |-> str.off]

\* metres of great circle per 1e-4 degree of latitude: 6371 km * pi / 180 / 1e4,
\* in millimetres
MilliMetresPerUnit == 11119

\* great-circle distance of the origin (0, 0) from the modelled region, metres
FarMetres == 5114772

\* haversine_distance, in metres.  Points of the modelled region lie on one
\* meridian, where a = sin^2(dlat/2) and the distance is R * dlat exactly;
\* the only other point is the origin (0, 0).
Haversine(lat1, lon1, lat2, lon2) ==
    IF lon1 = lon2
    THEN LET d == IF lat2 >= lat1 THEN lat2 - lat1 ELSE lat1 - lat2 IN
         (d * MilliMetresPerUnit) \div 1000
    ELSE FarMetres

(***************************************************************************)
(* src/src/database/chroma_manager.py: check_similar_incident              *)
(***************************************************************************)

\* time_window_hours=6 as store_incident_node passes it
TimeWindowHours == 6

\* timedelta(hours=1): the forward buffer
ForwardBufferHours == 1

\* embedding_distance_threshold=0.4, in hundredths
EmbeddingDistanceThreshold == 40

\* distance_threshold_km=2.0, in metres
DistanceThresholdMetres == 2000

\* lines 516-538: the time-window test of one entry.  TRUE iff the loop goes
\* on to the location test.  A missing or unparsable stored timestamp, and the
\* TypeError of comparing the (always aware) parsed timestamp with a naive
\* candidate window, all end in `continue`.
InTimeWindow(stamp, timestamp) ==
    /\ stamp.kind = "iso"
    /\ timestamp.aware
    /\ LET parsed == FromIsoFormat(stamp)
           existing == IF parsed.aware THEN Instant(parsed) ELSE parsed.t
       IN ~(\/ existing < Instant(MinusHours(timestamp, TimeWindowHours))
            \/ existing > Instant(MinusHours(timestamp, -ForwardBufferHours)))

\* a city test that an empty city never satisfies
CityMatchNonEmpty(existing_city, city) ==
    /\ existing_city # <<>> /\ city # <<>>
    /\ \/ Lower(existing_city) = Lower(city)
       \/ Contains(Lower(city), Lower(existing_city))
       \/ Contains(Lower(existing_city), Lower(city))

\* lines 564-566: city_match
CityMatch(existing_city, city) ==
    \/ Lower(existing_city) = Lower(city)
    \/ Contains(Lower(city), Lower(existing_city))
    \/ Contains(Lower(existing_city), Lower(city))

\* lines 569-576: street_match; street may be None
StreetMatch(existing_street, street) ==
    IF Truthy(street) /\ existing_street # <<>>
    THEN LET street_lower == Strip(Lower(street.s))
             existing_street_lower == Strip(Lower(existing_street))
         IN IF street_lower # <<>> /\ existing_street_lower # <<>>
            THEN \/ street_lower = existing_street_lower
                 \/ Contains(existing_street_lower, street_lower)
                 \/ Contains(street_lower, existing_street_lower)
            ELSE TRUE
    ELSE TRUE

\* line 579: the location test of one entry
LocationTest(cand, meta) ==
    LET distance == Haversine(cand.lat, cand.lon, meta.lat, meta.lon) IN
    CityMatch(meta.city, cand.city)
      /\ (StreetMatch(meta.street, cand.street) \/ distance < DistanceThresholdMetres)

\* lines 503-538: the similarity, metadata, event-type and time tests
BaseTestAnyType(cand, entry) ==
    /\ ~(entry.score > EmbeddingDistanceThreshold)
    /\ entry.hasMeta
    /\ InTimeWindow(entry.meta.timestamp, cand.timestamp)

BaseTest(cand, entry) ==
    /\ ~(entry.score > EmbeddingDistanceThreshold)
    /\ entry.hasMeta
    /\ entry.meta.event_type = cand.event_type
    /\ InTimeWindow(entry.meta.timestamp, cand.timestamp)

\* lines 500-581: one iteration of the loop returns (TRUE) or continues
EntryPasses(cand, entry) == BaseTest(cand, entry) /\ LocationTest(cand, entry.meta)

\* the loop walked from the far end of the list
RECURSIVE WalkBackwards(_, _)
WalkBackwards(cand, results) ==
    IF results = <<>> THEN 0
    ELSE LET last == results[Len(results)] IN
         IF EntryPasses(cand, last) THEN last.meta.incident_id
         ELSE WalkBackwards(cand, SubSeq(results, 1, Len(results) - 1))

\* lines 496-583: `for doc, score in similar_results`; 0 stands for None
RECURSIVE WalkResults(_, _)
WalkResults(cand, results) ==
    IF results = <<>> THEN 0
    ELSE IF EntryPasses(cand, Head(results)) THEN Head(results).meta.incident_id
    ELSE WalkResults(cand, Tail(results))

\* ChromaManager.check_similar_incident given what similarity_search_with_score
\* did: raised (the except at 585-589 returns None) or returned `results`
CheckSimilarIncident(cand, results, raised) ==
    IF raised THEN 0 ELSE WalkResults(cand, results)

(***************************************************************************)
(* check_similar_incident applied to bounded inputs                        *)
(***************************************************************************)

\* longest ranked list handed to check_similar_incident
MaxSimList == 2

tS1 == <<"s", "1">>

tS2 == <<"s", "2">>

tHaifaBay == <<"h", "a", "i", "f", "a", " ", "b">>

\* the candidate sits at (32.0, 35.0) at hour 1000
SimCands ==
    [summary : {"q"}, city : {tHaifa, tXy, <<>>}, lat : {320000}, lon : {350000},
     event_type : {"shooting"},
     timestamp : {AwareTime(1000, 0), NaiveTime(1000)},
     street : {NoneStr, Some(tS1)}]

\* stored timestamps: 10 h, 7 h, 6 h, 2 h before the candidate, 1 h and 2 h
\* after it, 2 h before written with a +03:00 offset, 2 h before written
\* without offset, an empty and an unparsable string
SimStamps ==
    {IsoFormat(AwareTime(1000 + d, 0)) : d \in {-10, -7, -6, -2, 1, 2}}
      \cup {IsoFormat(AwareTime(1001, 3)), IsoFormat(NaiveTime(998)), MissingStamp, BadStamp}

\* metadata of stored documents: 500 m and 3 km north of the candidate
SimMetas ==
    [incident_id : {0}, event_type : {"shooting", "stabbing"}, timestamp : SimStamps,
     lat : {320045, 320270}, lon : {350000}, city : {tHaifa, tXy, tHaifaBay, <<>>},
     street : {<<>>, tS1, tS2}]

SimEntries == [score : {20, 40, 41}, hasMeta : {TRUE}, meta : SimMetas]

\* the entries lists of two and more are built from
SimCoreEntries ==
    [score : {20, 40}, hasMeta : {TRUE},
     meta : [incident_id : {0}, event_type : {"shooting", "stabbing"},
             timestamp : {IsoFormat(AwareTime(998, 0)), IsoFormat(AwareTime(990, 0))},
             lat : {320045}, lon : {350000}, city : {tHaifa, tXy}, street : {<<>>}]]

\* a document whose metadata is empty
NoMetaEntry ==
    [score |-> 20, hasMeta |-> FALSE,
     meta |-> [incident_id |-> 0, event_type |-> "", timestamp |-> MissingStamp,
               lat |-> 0, lon |-> 0, city |-> <<>>, street |-> <<>>]]

\* similarity_search_with_score returns ascending distances
Ascending(results) ==
    \A i \in 1..(Len(results) - 1) : results[i].score <= results[i + 1].score

\* every stored document carries its own incident_id (store_incident, line 128)
WithIds(results) ==
    [i \in DOMAIN results |-> [results[i] EXCEPT !.meta.incident_id = 100 + i]]

SimLists ==
    {<<>>} \cup {<<e>> : e \in SimEntries \cup {NoMetaEntry}}
      \cup UNION {{l \in [1..n -> SimCoreEntries] : Ascending(l)} : n \in 2..MaxSimList}

SimIdleIn ==
    [cand |-> [summary |-> "q", city |-> <<>>, lat |-> 0, lon |-> 0, event_type |-> "",
               timestamp |-> NaiveTime(0), street |-> NoneStr],
     results |-> <<>>, raised |-> FALSE]

SimIdleOut == [done |-> FALSE, id |-> 0]

SimInit ==
    /\ \E c \in SimCands, l \in SimLists, r \in BOOLEAN :
          /\ r => l = <<>>
          /\ simIn = [cand |-> c, results |-> WithIds(l), raised |-> r]
    /\ simOut = SimIdleOut

SimIdle == simIn = SimIdleIn /\ simOut = SimIdleOut

simVars == <<simIn, simOut>>

\* one call of check_similar_incident
CheckSimilar ==
    /\ ~simOut.done
    /\ simOut' = [done |-> TRUE,
                  id |-> CheckSimilarIncident(simIn.cand, simIn.results, simIn.raised)]
    /\ UNCHANGED simIn

(***************************************************************************)
(* src/src/database/chroma_manager.py: the collection                      *)
(***************************************************************************)

\* EventType: the closed enumeration of schemas.py
EventTypes ==
    {"shooting", "police_activity", "roadblock", "accident", "brawl", "stabbing", "arson",
     "explosion", "terrorist_attack", "violent_crime", "suspicious_object", "unknown"}

\* a check_duplicate that reports a duplicate when the collection's get() raised
CheckDuplicateFailClosed(docs, message_id, source_channel, raised) ==
    raised \/ \E i \in DOMAIN docs :
                 docs[i].message_id = message_id /\ docs[i].source_channel = source_channel

\* ChromaManager.check_duplicate(message_id, source_channel) given whether the
\* collection's get() raised: `except Exception: return False`
CheckDuplicate(docs, message_id, source_channel, raised) ==
    IF raised THEN FALSE
    ELSE \E i \in DOMAIN docs :
            docs[i].message_id = message_id /\ docs[i].source_channel = source_channel

\* The embedding distance of two summaries, in hundredths: what the vector
\* index reports.  Equal texts are at 0; "a" and "b" are paraphrases (0.2),
\* every other pair is unrelated (0.5).
EmbeddingDistance(s1, s2) ==
    IF s1 = s2 THEN 0
    ELSE IF {s1, s2} = {"a", "b"} THEN 20
    ELSE 50

\* insert entry e into the ascending list l, after the entries of equal score
RECURSIVE InsertByScore(_, _)
InsertByScore(l, e) ==
    IF l = <<>> THEN <<e>>
    ELSE IF e.score < Head(l).score THEN <<e>> \o l
    ELSE <<Head(l)>> \o InsertByScore(Tail(l), e)

RECURSIVE RankFrom(_, _, _)
RankFrom(docs, summary, i) ==
    IF i = 0 THEN <<>>
    ELSE InsertByScore(RankFrom(docs, summary, i - 1),
                       [score |-> EmbeddingDistance(summary, docs[i].summary),
                        hasMeta |-> TRUE,
                        meta |-> [incident_id |-> docs[i].incident_id,
                                  event_type |-> docs[i].event_type,
                                  timestamp |-> docs[i].timestamp,
                                  lat |-> docs[i].lat, lon |-> docs[i].lon,
                                  city |-> docs[i].city, street |-> docs[i].street]])

\* vectorstore.similarity_search_with_score(summary, k=10): the stored
\* documents by ascending distance (the collection never exceeds k here)
SimilaritySearch(docs, summary) == RankFrom(docs, summary, Len(docs))

\* ChromaManager.store_incident: the document added, under a fresh uuid
\* (the position in the collection stands for the uuid)
NewDocument(docs, st, timestamp) ==
    [incident_id |-> Len(docs) + 1,
     summary |-> st.extracted_summary,
     timestamp |-> IsoFormat(timestamp),
     severity_score |-> st.extracted_severity,
     event_type |-> st.extracted_event_type,
     lat |-> st.latitude, lon |-> st.longitude,
     city |-> st.extracted_city,
     source_channel |-> st.source_channel,
     message_id |-> st.message_id,
     street |-> st.extracted_street]

(***************************************************************************)
(* src/src/agents/graph_orchestrator.py: store_incident_node               *)
(***************************************************************************)

\* datetime.utcnow() during the modelled runs: a naive datetime
UtcNow == NaiveTime(1000)

\* lines 307-312: the candidate timestamp from state["message_timestamp"]
ParseMessageTimestamp(stamp) ==
    IF stamp.kind = "iso" THEN FromIsoFormat(stamp) ELSE UtcNow

\* lines 316-327: the arguments handed to check_similar_incident
Candidate(st) ==
    [summary |-> st.extracted_summary, city |-> st.extracted_city,
     lat |-> st.latitude, lon |-> st.longitude,
     event_type |-> st.extracted_event_type,
     timestamp |-> ParseMessageTimestamp(st.message_timestamp),
     street |-> Some(st.extracted_street)]

\* the validations with the coordinate test left out
ValidateSummaryOnly(st) ==
    IF st.extracted_summary = "" THEN "No summary to store" ELSE ""

\* lines 286-291: the two validations; "" when both pass
Validate(st) ==
    IF st.extracted_summary = "" THEN "No summary to store"
    ELSE IF st.latitude = 0 /\ st.longitude = 0 THEN "No valid coordinates"
    ELSE ""

NodeResult(step, ok, err, similar, id) ==
    [current_step |-> step, stored_successfully |-> ok, error |-> err,
     similar_incident_id |-> similar, incident_id |-> id]

\* lines 286-305: validation and the exact-duplicate check.  "go" means the
\* node goes on to the near-duplicate check.
ExactPhase(docs, st, env) ==
    IF Validate(st) # ""
    THEN NodeResult("error", FALSE, Validate(st), 0, 0)
    ELSE IF CheckDuplicate(docs, st.message_id, st.source_channel, env.dupRaises)
    THEN NodeResult("duplicate", FALSE, "Duplicate incident - already stored", 0, 0)
    ELSE NodeResult("go", FALSE, "", 0, 0)

\* lines 307-340: EventType(...) (ValueError outside the enumeration, caught
\* at 365) and the near-duplicate check
SimilarPhase(docs, st, env) ==
    IF st.extracted_event_type \notin EventTypes
    THEN NodeResult("error", FALSE, "Storage failed", 0, 0)
    ELSE LET similar == CheckSimilarIncident(Candidate(st),
                                             SimilaritySearch(docs, st.extracted_summary),
                                             env.simRaises)
         IN IF similar # 0
            THEN NodeResult("duplicate", FALSE, "Similar incident already exists", similar, 0)
            ELSE NodeResult("go", FALSE, "", 0, 0)

\* lines 342-363: the insert
InsertPhase(docs, st) ==
    LET doc == NewDocument(docs, st, ParseMessageTimestamp(st.message_timestamp)) IN
    [docs |-> Append(docs, doc), out |-> NodeResult("stored", TRUE, "", 0, doc.incident_id)]

\* store_incident_node run from start to end on collection docs
StoreIncidentNode(docs, st, env) ==
    LET e == ExactPhase(docs, st, env) IN
    IF e.current_step # "go" THEN [docs |-> docs, out |-> e]
    ELSE LET n == SimilarPhase(docs, st, env) IN
         IF n.current_step # "go" THEN [docs |-> docs, out |-> n]
         ELSE InsertPhase(docs, st)

(***************************************************************************)
(* The ingest pipeline's store step as a state machine                     *)
(***************************************************************************)

\* largest collection explored
MaxStore == 2

\* number of concurrent pipeline runs
NumWorkers == 2

Workers == 1..NumWorkers

\* geocode_incident_node (lines 232-275): the query and city hint it hands to
\* Geocoder.geocode are strings, not both empty
GeocodeNodeArguments ==
    {a \in (LocTexts \ {NoneStr}) \X (CityHints \ {NoneStr}) : Truthy(a[1]) \/ Truthy(a[2])}

\* what Geocoder.geocode may do when the node calls it
GeocodeNodeOutcomes ==
    UNION {UNION {{GeocodeRun(<<>>, cl, a[1], a[2], env) : env \in AnswersWhen(cl, a[1], a[2])}
                    : cl \in BOOLEAN}
             : a \in GeocodeNodeArguments}

\* The (latitude, longitude) geocode_incident_node leaves in the pipeline
\* state: the geocoder's result, or the initial (0.0, 0.0) of
\* process_telegram_message when the node returns an error.
GeocodeNodeCoordinates ==
    {<<0, 0>>} \cup {<<r.ret.latitude, r.ret.longitude>> :
                        r \in {x \in GeocodeNodeOutcomes : ~x.raised}}

\* Pipeline states reaching store_incident_node (the extraction and geocoding
\* nodes ran before it).  Two provenance keys, an empty and two paraphrased
\* summaries, two cities, a geocoded point and the untouched (0.0, 0.0), two
\* event types of the enumeration and one outside it, a severity inside 1..10
\* and one outside it.
JobShapes ==
    [source_channel : {"c1", "c2"}, message_id : {7},
     message_timestamp : {IsoFormat(AwareTime(1000, 0))},
     extracted_summary : {"", "a", "b"},
     extracted_city : {tHaifa, tXy},
     extracted_street : {<<>>},
     extracted_event_type : {"shooting", "stabbing", "riot"},
     extracted_severity : {5, 15},
     latitude : {0, 320000}, longitude : {0, 350000}]

\* extract_incident_node, line 213: int(data.get("severity", 5)) is handed on
\* as the collaborator gave it.  One message shape carries the severity 15.
SeverityShape(j) ==
    j.extracted_severity = 5
      \/ (/\ j.source_channel = "c2" /\ j.extracted_summary = "b"
          /\ j.extracted_city = tXy /\ j.extracted_event_type = "stabbing"
          /\ j.latitude # 0)

\* the coordinates are a geocoded point or the untouched initial (0.0, 0.0)
Jobs == {j \in JobShapes : ((j.latitude = 0) <=> (j.longitude = 0)) /\ SeverityShape(j)}

\* what the collection's two lookups may do during one run
StoreEnvs == [dupRaises : BOOLEAN, simRaises : BOOLEAN]

NoRaise == [dupRaises |-> FALSE, simRaises |-> FALSE]

\* The lookups store_incident_node makes on docs for st: a lookup it never
\* reaches cannot raise.
LookupEnvs(docs, st) ==
    {e \in StoreEnvs :
        /\ Validate(st) # "" => ~e.dupRaises
        /\ ExactPhase(docs, st, e).current_step # "go" => ~e.simRaises
        /\ st.extracted_event_type \notin EventTypes => ~e.simRaises}

IdleJob ==
    [source_channel |-> "", message_id |-> 0, message_timestamp |-> MissingStamp,
     extracted_summary |-> "", extracted_city |-> <<>>, extracted_street |-> <<>>,
     extracted_event_type |-> "", extracted_severity |-> 0, latitude |-> 0, longitude |-> 0]

\* no pipeline run in progress
IngestIdleOut ==
    [phase |-> "idle", st |-> IdleJob, env |-> NoRaise, before |-> <<>>,
     out |-> NodeResult("", FALSE, "", 0, 0)]

\* get_chroma_manager(): an empty collection; no pipeline run in progress
IngestInit ==
    /\ store = <<>>
    /\ ingestOut = IngestIdleOut
    /\ pc = [w \in Workers |-> "idle"]
    /\ job = [w \in Workers |-> IdleJob]

ingestVars == <<store, ingestOut, pc, job>>

\* process_telegram_message up to store_incident_node: the graph ran
\* extract_incident_node and geocode_incident_node and hands st to the store
\* node.  main.py's message_handler runs one pipeline at a time.
Receive(st) ==
    /\ ingestOut.phase = "idle"
    /\ ingestOut' = [IngestIdleOut EXCEPT !.phase = "pending", !.st = st]
    /\ UNCHANGED <<store, pc, job>>

\* store_incident_node run from start to end, the collection's lookups
\* behaving as env says
StoreNode(env) ==
    LET r == StoreIncidentNode(store, ingestOut.st, env) IN
    /\ ingestOut.phase = "pending"
    /\ Len(r.docs) <= MaxStore
    /\ store' = r.docs
    /\ ingestOut' = [phase |-> "done", st |-> ingestOut.st, env |-> env,
                     before |-> store, out |-> r.out]
    /\ UNCHANGED <<pc, job>>

\* process_telegram_message returns the final state to its caller
Return ==
    /\ ingestOut.phase = "done"
    /\ ingestOut' = IngestIdleOut
    /\ UNCHANGED <<store, pc, job>>

\* --- the same node with its three collection calls as separate steps ----

\* The listener (main.py --listener-only) and the full system are separate
\* processes on one persist directory; both receive every channel message.
\* Each worker is one such pipeline run; the collection is shared.
\* The jobs of the concurrent runs: valid pipeline states.
ConcJobs ==
    {j \in Jobs : /\ Validate(j) = ""
                  /\ j.extracted_event_type = "shooting"
                  /\ j.message_timestamp.kind = "iso"}

\* lines 286-305
CExact(w, st) ==
    /\ pc[w] = "idle"
    /\ Len(store) < MaxStore
    /\ job' = [job EXCEPT ![w] = st]
    /\ pc' = [pc EXCEPT ![w] =
                IF ExactPhase(store, st, NoRaise).current_step = "go"
                THEN "similar" ELSE "idle"]
    /\ UNCHANGED <<store, ingestOut>>

\* lines 307-340
CSimilar(w) ==
    /\ pc[w] = "similar"
    /\ pc' = [pc EXCEPT ![w] =
                IF SimilarPhase(store, job[w], NoRaise).current_step = "go"
                THEN "insert" ELSE "idle"]
    /\ UNCHANGED <<store, ingestOut, job>>

\* lines 342-363
CInsert(w) ==
    /\ pc[w] = "insert"
    /\ store' = InsertPhase(store, job[w]).docs
    /\ pc' = [pc EXCEPT ![w] = "idle"]
    /\ UNCHANGED <<ingestOut, job>>

(***************************************************************************)
(* src/src/tools/risk_calculator.py and RiskAssessment (schemas.py)        *)
(***************************************************************************)

Min(a, b) == IF a <= b THEN a ELSE b

Max(a, b) == IF a >= b THEN a ELSE b

\* math.log2(m / 5) in millionths, rounded down, for m = 5..20.  Every use in
\* _calculate_final_score is capped at or below the value log2 = 2 gives, so
\* larger arguments saturate there.
Log2FifthsTable ==
    <<0, 263034, 485426, 678071, 847996, 1000000, 1137503, 1263034, 1378511, 1485426,
      1584962, 1678071, 1765534, 1847996, 1925999, 2000000>>

Log2Fifths(m) == IF m >= 20 THEN 2000000 ELSE Log2FifthsTable[m - 4]

\* RiskConfig.event_weights, in tenths; .get(event_type, 1.0)
EventWeight(event_type) ==
    CASE event_type \in {"shooting", "explosion"} -> 15
      [] event_type = "stabbing"        -> 14
      [] event_type = "arson"           -> 13
      [] event_type = "brawl"           -> 10
      [] event_type = "police_activity" -> 8
      [] event_type = "roadblock"       -> 5
      [] event_type = "accident"        -> 6
      [] event_type = "unknown"         -> 7
      [] OTHER                          -> 10

\* RiskConfig: recent_hours, week_hours, analysis_days, default_radius_km (metres)
RecentHours == 24

WeekHours == 168

AnalysisDays == 30

DefaultRadiusMetres == 2000

\* datetime.now(timezone.utc) during the modelled calls
Now == AwareTime(1000, 0)

\* lines 203-210: the timestamp parses
Parses(incident) == incident.timestamp.kind = "iso"

\* lines 214: ts_aware as a UTC instant (a naive timestamp is taken as UTC)
TsInstant(incident) ==
    LET ts == FromIsoFormat(incident.timestamp) IN
    IF ts.aware THEN Instant(ts) ELSE ts.t

\* lines 220-221: incident.get("lat", 0) and incident.get("lon", 0); a dict
\* without coordinates has has_coords FALSE
Lat(incident) == IF incident.has_coords THEN incident.lat ELSE 0

Lon(incident) == IF incident.has_coords THEN incident.lon ELSE 0

\* _filter_incidents: the sub-sequence of the incidents kept
RECURSIVE FilterIncidents(_, _, _, _, _)
FilterIncidents(incidents, center_lat, center_lon, radius, cutoff) ==
    IF incidents = <<>> THEN <<>>
    ELSE LET i == Head(incidents)
             rest == FilterIncidents(Tail(incidents), center_lat, center_lon, radius, cutoff)
         IN IF ~Parses(i) THEN rest
            ELSE IF TsInstant(i) < cutoff THEN rest
            ELSE IF Haversine(center_lat, center_lon, Lat(i), Lon(i)) <= radius
                 THEN <<i>> \o rest
                 ELSE rest

\* no key written into an incident dict
NoMark == [written |-> FALSE, _distance_km |-> 0, _timestamp |-> NaiveTime(0)]

\* _filter_incidents, lines 224-226: the keys "_distance_km" and "_timestamp"
\* it writes into the dict of every incident it keeps (the caller's dicts)
FilterMarks(incidents, center_lat, center_lon, radius, cutoff) ==
    [k \in DOMAIN incidents |->
        IF FilterIncidents(<<incidents[k]>>, center_lat, center_lon, radius, cutoff) # <<>>
        THEN [written |-> TRUE,
              _distance_km |-> Haversine(center_lat, center_lon,
                                         Lat(incidents[k]), Lon(incidents[k])),
              _timestamp |-> FromIsoFormat(incidents[k].timestamp)]
        ELSE NoMark]

\* the recency weights left out: every incident weighs as an old one
TimeWeightFlat(i, now) == 1

\* lines 261-268: the recency bucket of a filtered incident
TimeWeight(i, now) ==
    IF TsInstant(i) >= now - RecentHours THEN 3
    ELSE IF TsInstant(i) >= now - WeekHours THEN 2
    ELSE 1

\* _calculate_metrics; weighted_severity is kept in tenths
RECURSIVE CalculateMetrics(_, _)
CalculateMetrics(incidents, now) ==
    IF incidents = <<>>
    THEN [events_24h |-> 0, week_only |-> 0, severity_sum |-> 0, weighted_severity |-> 0]
    ELSE LET i == Head(incidents)
             m == CalculateMetrics(Tail(incidents), now)
             w == TimeWeight(i, now)
         IN [events_24h |-> m.events_24h + (IF w = 3 THEN 1 ELSE 0),
             week_only |-> m.week_only + (IF w = 2 THEN 1 ELSE 0),
             severity_sum |-> m.severity_sum + i.severity_score,
             weighted_severity |->
                 m.weighted_severity + i.severity_score * w * EventWeight(i.event_type)]

\* line 281: events_7d += events_24h
Events7d(m) == m.week_only + m.events_24h

\* lines 310-314: event_score, millionths
EventScore(total_events) == Min(4000000, 2 * Log2Fifths(5 + total_events))

\* a severity component that falls as the weighted severity grows
SeverityScoreFalling(m, total_events) ==
    Max(0, 4000000 - (m.weighted_severity * 40000) \div total_events)

\* lines 317-322: severity_score, millionths: (avg_weighted / 5) * 2
SeverityScore(m, total_events) ==
    Min(4000000, (m.weighted_severity * 40000) \div total_events)

\* lines 325-337: recency_score, millionths
RecencyScore(m) ==
    IF m.events_24h > 0
    THEN Min(2000000, (Log2Fifths(5 * (1 + m.events_24h)) * 15) \div 10)
    ELSE IF Events7d(m) > 0
    THEN Min(1000000, Log2Fifths(5 * (1 + Events7d(m))) \div 2)
    ELSE 0

\* _calculate_final_score, millionths
CalculateFinalScore(m, total_events) ==
    IF total_events = 0 THEN 0
    ELSE Min(10000000,
             Max(0, EventScore(total_events) + SeverityScore(m, total_events)
                      + RecencyScore(m)))

\* round(risk_score, 1): millionths to tenths, an exact tie going to the even
\* tenth as Python's round does
RoundTenths(score) ==
    LET q == score \div 100000
        r == score % 100000
    IN IF r > 50000 \/ (r = 50000 /\ q % 2 = 1) THEN q + 1 ELSE q

\* RiskAssessment.calculate_risk_level on a score in millionths
CalculateRiskLevel(score) ==
    IF score >= 9000000 THEN "critical"
    ELSE IF score >= 7000000 THEN "high"
    ELSE IF score >= 5000000 THEN "moderate"
    ELSE IF score >= 3000000 THEN "low"
    ELSE "minimal"

\* line 170: risk_level = RiskAssessment.calculate_risk_level(risk_score)
LevelOfScore(score) == CalculateRiskLevel(score)

\* None for the Optional arguments radius_km and analysis_days
NoneNumber == -1

\* a default that replaces the absent argument only
OrDefaultNoneOnly(x, default) == IF x = NoneNumber THEN default ELSE x

\* lines 129-130: `x or default` replaces None and 0
OrDefault(x, default) == IF x = NoneNumber \/ x = 0 THEN default ELSE x

\* RiskCalculator.calculate_risk.  risk_score is in tenths.
CalculateRisk(incidents, center_lat, center_lon, radius_km, analysis_days) ==
    LET radius == OrDefault(radius_km, DefaultRadiusMetres)
        days == OrDefault(analysis_days, AnalysisDays)
        now == Instant(Now)
        filtered == FilterIncidents(incidents, center_lat, center_lon, radius, now - days * 24)
    IN IF filtered = <<>>
       THEN [risk_score |-> 0, risk_level |-> "minimal", total_events |-> 0,
             events_last_24h |-> 0, events_last_7d |-> 0, total_severity_sum |-> 0,
             radius_km |-> radius]
       ELSE LET m == CalculateMetrics(filtered, now)
                score == CalculateFinalScore(m, Len(filtered))
            IN [risk_score |-> RoundTenths(score), risk_level |-> LevelOfScore(score),
                total_events |-> Len(filtered),
                events_last_24h |-> m.events_24h, events_last_7d |-> Events7d(m),
                total_severity_sum |-> m.severity_sum,
                radius_km |-> radius]

\* the incident dicts after calculate_risk(incidents, ...) returned
MarksAfterRisk(incidents, center_lat, center_lon, radius_km, analysis_days) ==
    FilterMarks(incidents, center_lat, center_lon,
                OrDefault(radius_km, DefaultRadiusMetres),
                Instant(Now) - OrDefault(analysis_days, AnalysisDays) * 24)

(***************************************************************************)
(* calculate_risk applied to bounded inputs                                *)
(***************************************************************************)

\* longest incident list drawn from RiskIncidents
MaxIncidents == 2

\* Incidents around the centre (32.0, 35.0): now, 100 h, 20 days and 750 h
\* ago; 500 m and 3 km away.
RiskIncidents ==
    [timestamp : {IsoFormat(AwareTime(t, 0)) : t \in {1000, 900, 520, 250}},
     lat : {320045, 320270}, lon : {350000}, has_coords : {TRUE},
     severity_score : {3, 5, 8}, event_type : {"shooting", "roadblock"}]

\* Persisted data that is malformed: shootings timestamped now, 500 m away,
\* with an unparsable timestamp, with no timestamp, with a severity above and
\* below 1..10, and one without coordinates.
MalformedIncidents ==
    {[timestamp |-> ts, lat |-> 320045, lon |-> 350000, has_coords |-> TRUE,
      severity_score |-> 5, event_type |-> "shooting"] : ts \in {BadStamp, MissingStamp}}
      \cup {[timestamp |-> IsoFormat(Now), lat |-> 320045, lon |-> 350000, has_coords |-> TRUE,
              severity_score |-> sv, event_type |-> "shooting"] : sv \in {0, 15}}
      \cup {[timestamp |-> IsoFormat(Now), lat |-> 0, lon |-> 0, has_coords |-> FALSE,
              severity_score |-> 5, event_type |-> "shooting"]}

\* one representative order per multiset of incidents
Rank(i) ==
    i.severity_score + 16 * i.timestamp.t
      + (IF i.event_type = "shooting" THEN 32768 ELSE 0)
      + 65536 * (IF i.has_coords THEN i.lat - 320000 ELSE 0)

Ordered(l) == \A k \in 1..(Len(l) - 1) : Rank(l[k]) <= Rank(l[k + 1])

RiskLists ==
    UNION {{l \in [1..n -> RiskIncidents \cup MalformedIncidents] : Ordered(l)}
             : n \in 0..MaxIncidents}

\* twenty shootings at the query point within the last hour: the first k of
\* severity a, the others of severity b
TwentyShootings(a, b, k) ==
    [n \in 1..20 |->
        [timestamp |-> IsoFormat(AwareTime(IF n <= k THEN 1000 ELSE 999, 0)),
         lat |-> 320000, lon |-> 350000, has_coords |-> TRUE,
         severity_score |-> IF n <= k THEN a ELSE b, event_type |-> "shooting"]]

TwentyLists == {TwentyShootings(a, b, k) : a \in {1, 2, 3}, b \in {1, 2, 3, 10}, k \in 0..20}

\* Single shootings at the edges of the filter: 989 m and 1011 m from the
\* centre (radius 1 km -/+ about 0.01 km), and timestamped exactly 7 days
\* ago and one hour earlier.
EdgeIncidents ==
    {[timestamp |-> IsoFormat(Now), lat |-> lat, lon |-> 350000, has_coords |-> TRUE,
      severity_score |-> 5, event_type |-> "shooting"] : lat \in {320089, 320091}}
      \cup {[timestamp |-> IsoFormat(AwareTime(t, 0)), lat |-> 320045, lon |-> 350000,
              has_coords |-> TRUE, severity_score |-> 5, event_type |-> "shooting"]
                : t \in {832, 831}}

EdgeLists == {<<e>> : e \in EdgeIncidents}

RiskIdleIn ==
    [incidents |-> <<>>, center_lat |-> 0, center_lon |-> 0, radius_km |-> 0,
     analysis_days |-> 0]

NoAssessment ==
    [risk_score |-> 0, risk_level |-> "minimal", total_events |-> 0,
     events_last_24h |-> 0, events_last_7d |-> 0, total_severity_sum |-> 0,
     radius_km |-> 0]

RiskIdleOut == [done |-> FALSE, a |-> NoAssessment, marks |-> <<>>]

QueryIdleOut == [done |-> FALSE, raised |-> FALSE, retrieved |-> <<>>, a |-> NoAssessment]

\* radius_km (metres) and analysis_days of the modelled calls
RiskArgs == {0, 1000, 2000} \X {0, 7, 30}

\* a radius of 6000 km and a window of 60 days, tried on the shortest lists
WideArgs == {<<6000000, 0>>, <<0, 60>>, <<2000, 60>>}

\* both arguments absent, and one of them, tried on the shortest lists
AbsentArgs == {<<NoneNumber, NoneNumber>>, <<NoneNumber, 7>>, <<1000, NoneNumber>>}

RiskInit ==
    /\ \E l \in RiskLists \cup TwentyLists \cup EdgeLists,
          rd \in RiskArgs \cup WideArgs \cup AbsentArgs :
          /\ rd \in WideArgs \cup AbsentArgs => Len(l) <= 1
          /\ riskIn = [incidents |-> l, center_lat |-> 320000, center_lon |-> 350000,
                       radius_km |-> rd[1], analysis_days |-> rd[2]]
    /\ riskOut = RiskIdleOut
    /\ queryOut = QueryIdleOut

RiskIdle == riskIn = RiskIdleIn /\ riskOut = RiskIdleOut /\ queryOut = QueryIdleOut

riskVars == <<riskIn, riskOut, queryOut>>

\* one call of calculate_risk
AssessRisk ==
    /\ ~riskOut.done /\ ~queryOut.done
    /\ riskOut' = [done |-> TRUE,
                   a |-> CalculateRisk(riskIn.incidents, riskIn.center_lat,
                                       riskIn.center_lon, riskIn.radius_km,
                                       riskIn.analysis_days),
                   marks |-> MarksAfterRisk(riskIn.incidents, riskIn.center_lat,
                                            riskIn.center_lon, riskIn.radius_km,
                                            riskIn.analysis_days)]
    /\ UNCHANGED <<riskIn, queryOut>>

(***************************************************************************)
(* The analyst pipeline: retrieve_incidents_node and calculate_risk_node   *)
(***************************************************************************)

\* get_incidents_in_area, line 255: incident_time >= cutoff_date compares the
\* ISO strings; the cutoff is the naive utcnow() - days at wall-clock hour
\* `cutoff`.  A missing timestamp is "", an unparsable one a text such as
\* "unknown" that sorts after every digit.
StampAtOrAfter(stamp, cutoff) ==
    CASE stamp.kind = "iso"     -> stamp.t >= cutoff
      [] stamp.kind = "missing" -> FALSE
      [] OTHER                  -> TRUE

\* the timestamp string of a sorts at or after that of b
StampGeq(a, b) ==
    CASE b.timestamp.kind = "missing" -> TRUE
      [] a.timestamp.kind = "missing" -> FALSE
      [] a.timestamp.kind = "bad"     -> TRUE
      [] b.timestamp.kind = "bad"     -> FALSE
      [] OTHER                        -> a.timestamp.t >= b.timestamp.t

\* insert e into the descending list l behind the entries sorting at or after it
RECURSIVE InsertByStamp(_, _)
InsertByStamp(l, e) ==
    IF l = <<>> THEN <<e>>
    ELSE IF StampGeq(Head(l), e) THEN <<Head(l)>> \o InsertByStamp(Tail(l), e)
    ELSE <<e>> \o l

\* line 263: incidents.sort(key=timestamp, reverse=True), a stable sort
RECURSIVE SortByStamp(_, _)
SortByStamp(incidents, n) ==
    IF n = 0 THEN <<>> ELSE InsertByStamp(SortByStamp(incidents, n - 1), incidents[n])

\* line 254: the distance test of get_incidents_in_area
InArea(d, center_lat, center_lon, radius) ==
    Haversine(center_lat, center_lon, Lat(d), Lon(d)) <= radius

\* ChromaManager.get_incidents_in_area(center_lat, center_lon, radius_km, days,
\* limit) on the collection docs
GetIncidentsInArea(docs, center_lat, center_lon, radius, days, limit) ==
    LET cutoff == UtcNow.t - days * 24
        hits == SelectSeq(docs, LAMBDA d : /\ InArea(d, center_lat, center_lon, radius)
                                           /\ StampAtOrAfter(d.timestamp, cutoff))
        sorted == SortByStamp(hits, Len(hits))
    IN SubSeq(sorted, 1, Min(limit, Len(sorted)))

\* radius_km=2.0 (metres) and limit=50 as the analyst nodes pass them
QueryRadiusMetres == 2000

QueryLimit == 50

\* retrieve_incidents_node for a geocoded query point (lat != 0 and lon != 0);
\* a collection call that raises leaves retrieved_incidents empty
RetrieveIncidentsNode(docs, lat, lon, days, raised) ==
    IF raised THEN <<>>
    ELSE GetIncidentsInArea(docs, lat, lon, QueryRadiusMetres, days, QueryLimit)

\* calculate_risk_node for a geocoded query point: calculate_risk is called
\* with radius_km=2.0 and no analysis_days
CalculateRiskNode(incidents, lat, lon) ==
    CalculateRisk(incidents, lat, lon, QueryRadiusMetres, NoneNumber)

\* state["query_time_range_days"] of the modelled query: the requested
\* window, or the 30 of query_safety_status's initial state
QueryDays == IF riskIn.analysis_days <= 0 THEN AnalysisDays ELSE riskIn.analysis_days

\* the analyst pipeline from retrieve_incidents_node to calculate_risk_node,
\* riskIn.incidents being the collection.  The analyst state carries a query
\* point and a window but no radius (riskIn.radius_km absent).
AssessQuery(raised) ==
    LET got == RetrieveIncidentsNode(riskIn.incidents, riskIn.center_lat, riskIn.center_lon,
                                     QueryDays, raised)
    IN /\ ~riskOut.done /\ ~queryOut.done
       /\ riskIn.radius_km = NoneNumber \/ riskIn.radius_km = 0
       /\ queryOut' = [done |-> TRUE, raised |-> raised, retrieved |-> got,
                       a |-> CalculateRiskNode(got, riskIn.center_lat, riskIn.center_lon)]
       /\ UNCHANGED <<riskIn, riskOut>>

(***************************************************************************)
(* src/src/agents/graph_orchestrator.py: the processing graph              *)
(***************************************************************************)

\* number of messages one process_telegram_message sequence handles
MaxMessages == 2

\* What extract_incident_node may hand on (lines 198-217): the summary, the
\* location description, the city and the street as the collaborator gave
\* them, each possibly empty.
Extractions ==
    [summary : {"", "a"}, location : {<<>>, tXy}, city : {<<>>, tHaifa},
     street : {<<>>, tLodSt}]

\* ", ".join(address_parts)
JoinParts(street, city) ==
    IF street # <<>> /\ city # <<>> THEN street \o <<",", " ">> \o city
    ELSE street \o city

\* lines 250-259: street and city joined (no neighbourhood is modelled),
\* the location description when both are empty
GeocodeQuery(e) ==
    IF e.street # <<>> \/ e.city # <<>> THEN JoinParts(e.street, e.city) ELSE e.location

\* line 243: the node calls the geocoder unless location and city are both empty
CallsGeocoder(e) == e.location # <<>> \/ e.city # <<>>

\* the pipeline state store_incident_node receives for message number n:
\* the extraction, and the geocoder's coordinates g or the initial (0.0, 0.0)
PipelineState(e, n, located, g) ==
    [source_channel |-> "c1", message_id |-> n,
     message_timestamp |-> IsoFormat(AwareTime(1000, 0)),
     extracted_summary |-> e.summary, extracted_city |-> e.city,
     extracted_street |-> e.street, extracted_event_type |-> "shooting",
     extracted_severity |-> 5,
     latitude |-> IF located THEN g.ret.latitude ELSE 0,
     longitude |-> IF located THEN g.ret.longitude ELSE 0]

PipeIdleOut ==
    [n |-> 0, e |-> [summary |-> "", location |-> <<>>, city |-> <<>>, street |-> <<>>],
     called |-> FALSE, cacheBefore |-> <<>>, storeBefore |-> <<>>,
     out |-> NodeResult("", FALSE, "", 0, 0)]

PipeIdle == pipeOut = PipeIdleOut

pipeVars == <<pipeOut>>

\* The client's answers during one run of the graph: the client finds
\* nothing or a point inside the bounds.
PipeAnswers(e) ==
    IF CallsGeocoder(e)
    THEN {a \in ClientAnswers(cache, client, Some(GeocodeQuery(e)), Some(e.city)) :
             \A c \in {"g1", "g2", "p"} : a[c] \in {"none", "inA"}}
    ELSE {NoAnswers}

\* process_telegram_message (lines 714-775) on extraction e: the graph runs
\* geocode_incident_node and then store_incident_node, whatever the earlier
\* node returned (lines 675-677: unconditional edges).  env are the client's
\* answers, senv the collection's behaviour.
ProcessMessage(e, env, senv) ==
    LET g   == GeocodeRun(cache, client, Some(GeocodeQuery(e)), Some(e.city), env)
        st  == PipelineState(e, pipeOut.n + 1, CallsGeocoder(e) /\ ~g.raised, g)
        r   == StoreIncidentNode(store, st, senv)
    IN /\ pipeOut.n < MaxMessages
       /\ senv \in LookupEnvs(store, st)
       /\ Len(r.docs) <= MaxStore
       /\ IF CallsGeocoder(e)
          THEN /\ geoCalls' = geoCalls + 1
               /\ Record(g, Some(GeocodeQuery(e)), Some(e.city), env,
                         <<Some(GeocodeQuery(e)), Some(e.city)>>)
          ELSE UNCHANGED <<cache, geoOut, geoSeen, geoCalls>>
       /\ store' = r.docs
       /\ pipeOut' = [n |-> pipeOut.n + 1, e |-> e, called |-> CallsGeocoder(e),
                      cacheBefore |-> cache, storeBefore |-> store, out |-> r.out]
       /\ UNCHANGED <<client, ingestOut, pc, job>>

(***************************************************************************)
(* Specifications                                                          *)
(***************************************************************************)

\* the ingest pipeline, one run at a time
Init == IngestInit /\ GeoIdle /\ SimIdle /\ RiskIdle /\ PipeIdle

ReceiveMessage ==
    /\ ingestOut.phase = "idle"
    /\ \E st \in Jobs : Receive(st)
    /\ UNCHANGED <<geoVars, simVars, riskVars, pipeVars>>

RunStoreNode ==
    /\ ingestOut.phase = "pending"
    /\ \E env \in LookupEnvs(store, ingestOut.st) : StoreNode(env)
    /\ UNCHANGED <<geoVars, simVars, riskVars, pipeVars>>

ReturnResult == Return /\ UNCHANGED <<geoVars, simVars, riskVars, pipeVars>>

Next == ReceiveMessage \/ RunStoreNode \/ ReturnResult

Spec == Init /\ [][Next]_vars

\* the ingest pipeline, runs interleaved at their collection calls
ExactStep ==
    /\ \E w \in Workers, st \in ConcJobs : CExact(w, st)
    /\ UNCHANGED <<geoVars, simVars, riskVars, pipeVars>>

SimilarStep ==
    /\ \E w \in Workers : CSimilar(w)
    /\ UNCHANGED <<geoVars, simVars, riskVars, pipeVars>>

InsertStep ==
    /\ \E w \in Workers : CInsert(w)
    /\ UNCHANGED <<geoVars, simVars, riskVars, pipeVars>>

NextConc == ExactStep \/ SimilarStep \/ InsertStep

SpecConc == Init /\ [][NextConc]_vars

\* one Geocoder
InitGeo == GeoInit /\ IngestInit /\ SimIdle /\ RiskIdle /\ PipeIdle

GeocodeCall ==
    /\ geoCalls < MaxGeoCalls
    /\ \E a \in GeocodePairs :
          \E env \in ClientAnswers(cache, client, a[1], a[2]) : Geocode(a[1], a[2], env)
    /\ UNCHANGED <<ingestVars, simVars, riskVars, pipeVars>>

NextGeo == GeocodeCall

SpecGeo == InitGeo /\ [][NextGeo]_vars

\* the processing graph on one Geocoder and one collection
InitPipe == GeoInit /\ IngestInit /\ SimIdle /\ RiskIdle /\ PipeIdle

PipelineRun ==
    /\ pipeOut.n < MaxMessages
    /\ \E e \in Extractions :
          \E env \in PipeAnswers(e) : \E senv \in StoreEnvs : ProcessMessage(e, env, senv)
    /\ UNCHANGED <<simVars, riskVars>>

NextPipe == PipelineRun

SpecPipe == InitPipe /\ [][NextPipe]_vars

\* check_similar_incident on drawn arguments
InitSim == SimInit /\ IngestInit /\ GeoIdle /\ RiskIdle /\ PipeIdle

SimilarCall == CheckSimilar /\ UNCHANGED <<ingestVars, geoVars, riskVars, pipeVars>>

NextSim == SimilarCall

SpecSim == InitSim /\ [][NextSim]_vars

\* calculate_risk on drawn arguments
InitRisk == RiskInit /\ IngestInit /\ GeoIdle /\ SimIdle /\ PipeIdle

RiskCall == AssessRisk /\ UNCHANGED <<ingestVars, geoVars, simVars, pipeVars>>

QueryCall ==
    /\ \E raised \in BOOLEAN : AssessQuery(raised)
    /\ UNCHANGED <<ingestVars, geoVars, simVars, pipeVars>>

NextRisk == RiskCall \/ QueryCall

SpecRisk == InitRisk /\ [][NextRisk]_vars

(***************************************************************************)
(* Claims about the Geocoder (SpecGeo)                                     *)
(***************************************************************************)

\* C1: Geocoder.geocode never raises: every call, whatever the location text,
\* the city hint, the client's presence and the client's answers, returns a
\* result.  (As stated by the claim; the code violates it.)
C1_GeocodeNeverRaises == geoOut.called => ~geoOut.raised

\* C10: the second geocode call for a (location, city) pair returns what the
\* first call for that pair returned and is answered from the cache, with no
\* strategy attempted and no client call made.  (As stated by the claim; the
\* code violates it where the first call raised, see C1.)
C10_SecondCallFromCache ==
    (geoOut.called /\ geoOut.again) =>
        /\ ~geoOut.raised
        /\ ~geoSeen[<<geoOut.loc, geoOut.city>>].raised
        /\ geoOut.ret = geoSeen[<<geoOut.loc, geoOut.city>>].ret
        /\ geoOut.hit
        /\ geoOut.trace = <<>>

(***************************************************************************)
(* Claims about the ingest pipeline (Spec, SpecConc)                       *)
(***************************************************************************)

\* the provenance key of the run's incident is already in collection docs
KeyStored(docs, st) ==
    \E i \in DOMAIN docs :
        /\ docs[i].source_channel = st.source_channel
        /\ docs[i].message_id = st.message_id

\* C2: once an incident with key (source_channel, message_id) is stored, a
\* later ingest with the same key is rejected and writes nothing, whatever
\* its other fields are; one that passes the field validations is rejected
\* as an exact duplicate.  (As stated by the claim; the code violates it.)
C2_SameKeyRejected ==
    (ingestOut.phase = "done" /\ KeyStored(ingestOut.before, ingestOut.st)) =>
        /\ store = ingestOut.before
        /\ ~ingestOut.out.stored_successfully
        /\ Validate(ingestOut.st) = "" =>
              /\ ingestOut.out.current_step = "duplicate"
              /\ ingestOut.out.similar_incident_id = 0

\* C3: the collection never holds two incidents with the same
\* (source_channel, message_id), however concurrent ingests interleave.
\* (As stated by the claim; the code violates it.)
C3_KeyUnique ==
    \A i, j \in DOMAIN store :
        (/\ store[i].source_channel = store[j].source_channel
         /\ store[i].message_id = store[j].message_id) => i = j

\* the ranked list the finished run's near-duplicate check walked
RankedOfRun == SimilaritySearch(ingestOut.before, ingestOut.st.extracted_summary)

\* positions of RankedOfRun that pass every check for the run's candidate
QualifyingOfRun ==
    {i \in DOMAIN RankedOfRun : EntryPasses(Candidate(ingestOut.st), RankedOfRun[i])}

\* the finished run got as far as check_similar_incident
ReachedSimilarCheck ==
    /\ ingestOut.phase = "done"
    /\ ExactPhase(ingestOut.before, ingestOut.st, ingestOut.env).current_step = "go"
    /\ ingestOut.st.extracted_event_type \in EventTypes

C6_WitnessStored ==
    /\ ReachedSimilarCheck
    /\ RankedOfRun # <<>>
    /\ QualifyingOfRun = {}
    /\ ingestOut.out.current_step = "stored"

(***************************************************************************)
(* Claims about check_similar_incident (SpecSim)                           *)
(***************************************************************************)

\* great-circle distance of a listed entry from the candidate, metres
EntryDistance(cand, entry) == Haversine(cand.lat, cand.lon, entry.meta.lat, entry.meta.lon)

\* the acceptance rule as the claim states it: similarity, type and time
\* satisfied, city match or distance within 2 km, and a street match needed
\* only when both streets are given and the distance test did not pass
ClaimedAccepts(cand, entry) ==
    /\ BaseTest(cand, entry)
    /\ \/ CityMatch(entry.meta.city, cand.city)
       \/ EntryDistance(cand, entry) <= DistanceThresholdMetres
    /\ \/ StreetMatch(entry.meta.street, cand.street)
       \/ EntryDistance(cand, entry) <= DistanceThresholdMetres

\* C4: an entry satisfying the similarity, type and time conditions is
\* accepted exactly when (city match or distance <= 2 km), a street match
\* being required only when both streets are given and the distance test
\* failed: the call returns an id iff some listed entry is acceptable in that
\* sense.  (As stated by the claim; the code violates it.)
C4_CityOrDistance ==
    (simOut.done /\ ~simIn.raised) =>
        (simOut.id # 0 <=>
            \E i \in DOMAIN simIn.results : ClaimedAccepts(simIn.cand, simIn.results[i]))

\* the UTC hour a stored timestamp string denotes (no offset: taken as UTC)
StampInstant(stamp) == IF stamp.aware THEN stamp.t - stamp.off ELSE stamp.t

\* C5: an id is returned only for a listed entry whose similarity distance is
\* <= 0.4, whose event type equals the candidate's and whose timestamp lies
\* in [candidate - 6 h, candidate + 1 h], bounds included.
C5_OnlyWithinWindow ==
    (simOut.done /\ simOut.id # 0) =>
        \E i \in DOMAIN simIn.results :
            LET e == simIn.results[i] IN
            /\ e.meta.incident_id = simOut.id
            /\ e.score <= EmbeddingDistanceThreshold
            /\ e.meta.event_type = simIn.cand.event_type
            /\ e.meta.timestamp.kind = "iso"
            /\ StampInstant(e.meta.timestamp)
                  >= Instant(simIn.cand.timestamp) - TimeWindowHours
            /\ StampInstant(e.meta.timestamp)
                  <= Instant(simIn.cand.timestamp) + ForwardBufferHours

\* C5 witness: the entry returned sits on the bounds: similarity distance
\* exactly 0.4 and exactly 6 hours older than the candidate
C5_Witness ==
    /\ simOut.done
    /\ simOut.id # 0
    /\ \E i \in DOMAIN simIn.results :
          /\ simIn.results[i].meta.incident_id = simOut.id
          /\ simIn.results[i].score = EmbeddingDistanceThreshold
          /\ StampInstant(simIn.results[i].meta.timestamp)
                = Instant(simIn.cand.timestamp) - TimeWindowHours

(***************************************************************************)
(* Claims about calculate_risk (SpecRisk)                                  *)
(***************************************************************************)

RECURSIVE SeveritySum(_)
SeveritySum(incidents) ==
    IF incidents = <<>> THEN 0
    ELSE Head(incidents).severity_score + SeveritySum(Tail(incidents))

\* C7 as stated: the risk_score is within [0, 10] and twenty shootings within
\* the last hour at the query point score 10.0.  (The code violates the
\* second half for low severities.)
C7_TwentyShootingsScoreTen ==
    riskOut.done =>
        /\ 0 <= riskOut.a.risk_score /\ riskOut.a.risk_score <= 100
        /\ riskIn.incidents \in TwentyLists => riskOut.a.risk_score = 100

\* C7 amended: the risk_score is within [0, 10]; twenty shootings within the
\* last hour at the query point are all counted and score exactly 10.0 when
\* their severities sum to 44 or more, and less than 10.0 otherwise.
C7_ScoreBounded ==
    riskOut.done =>
        /\ 0 <= riskOut.a.risk_score /\ riskOut.a.risk_score <= 100
        /\ riskIn.incidents \in TwentyLists =>
              /\ riskOut.a.total_events = 20
              /\ riskOut.a.risk_score = 100 <=> SeveritySum(riskIn.incidents) >= 44

\* C7 witness: twenty shootings were assessed and the score is 10.0
C7_Witness ==
    /\ riskOut.done
    /\ riskIn.incidents \in TwentyLists
    /\ riskOut.a.risk_score = 100

\* C8: the risk_level of a returned assessment is the level the thresholds
\* assign to the risk_score the same assessment carries.  (As stated by the
\* claim; the code violates it.)
C8_LevelMatchesScore ==
    riskOut.done =>
        riskOut.a.risk_level = CalculateRiskLevel(riskOut.a.risk_score * 100000)

\* incident A: a shooting of severity 8 timestamped now, 500 m away
IncidentA ==
    [timestamp |-> IsoFormat(Now), lat |-> 320045, lon |-> 350000, has_coords |-> TRUE,
     severity_score |-> 8, event_type |-> "shooting"]

\* incident B: a shooting of severity 3, 20 days old, 500 m away
IncidentB ==
    [timestamp |-> IsoFormat(MinusHours(Now, 480)), lat |-> 320045, lon |-> 350000,
     has_coords |-> TRUE, severity_score |-> 3, event_type |-> "shooting"]

\* C9: incidents A and B, radius 2 km, window 30 days: total_events = 2,
\* events_last_24h = 1, events_last_7d = 1 and the level is HIGH or CRITICAL.
\* (As stated by the claim; the code violates it.)
C9_ScenarioLevelHigh ==
    (/\ riskOut.done
     /\ riskIn.incidents \in {<<IncidentA, IncidentB>>, <<IncidentB, IncidentA>>}
     /\ riskIn.radius_km = 2000
     /\ riskIn.analysis_days = 30) =>
        /\ riskOut.a.total_events = 2
        /\ riskOut.a.events_last_24h = 1
        /\ riskOut.a.events_last_7d = 1
        /\ riskOut.a.risk_level \in {"high", "critical"}

(***************************************************************************)
(* Further claims about the Geocoder (SpecGeo)                             *)
(***************************************************************************)

\* the results geocode has returned so far: the last call's and the first
\* one of every pair asked
ObservedResults ==
    (IF geoOut.called /\ ~geoOut.raised THEN {geoOut.ret} ELSE {})
      \cup {geoSeen[p].ret : p \in {q \in DOMAIN geoSeen : ~geoSeen[q].raised}}

\* position of a method tag along the fallback chain
ChainRank(method) ==
    CASE method = "google_geocoding"         -> 1
      [] method = "google_places"            -> 2
      [] method = "known_locations"          -> 3
      [] method = "known_locations_partial"  -> 4
      [] method = "text_extraction_fallback" -> 5
      [] method = "default_fallback"         -> 6
      [] OTHER                               -> 0

\* the confidence the claim gives each method tag, in hundredths
ClaimedConfidence(method) ==
    CASE method = "google_geocoding"         -> 90
      [] method = "google_places"            -> 85
      [] method = "known_locations"          -> 70
      [] method = "known_locations_partial"  -> 60
      [] method = "text_extraction_fallback" -> 40
      [] method = "default_fallback"         -> 10
      [] OTHER                               -> -1

\* C11: every result geocode returns carries one of the six method tags and
\* the confidence fixed for that tag (0.9, 0.85, 0.7, 0.6, 0.4, 0.1), and of
\* two results the one produced earlier in the fallback chain has the
\* strictly higher confidence.
C11_ConfidenceByMethod ==
    /\ \A r \in ObservedResults :
          /\ ChainRank(r.geocode_method) # 0
          /\ r.confidence = ClaimedConfidence(r.geocode_method)
    /\ \A r1, r2 \in ObservedResults :
          ChainRank(r1.geocode_method) < ChainRank(r2.geocode_method)
              => r1.confidence > r2.confidence

\* C11 witness: a gazetteer-exact and a gazetteer-partial result were both
\* returned by one Geocoder
C11_Witness ==
    /\ geoOut.called /\ ~geoOut.raised
    /\ geoOut.ret.geocode_method = "known_locations_partial"
    /\ \E r \in ObservedResults : r.geocode_method = "known_locations"

\* the strategies of geocode in the order the claim fixes
StrategyOrder ==
    <<"geocoding", "geocoding_city", "places", "known_full", "known_city", "known_text",
      "extract">>

\* the last call can try the strategy: the Google strategies need the client,
\* the city-only lookups a city hint, the text lookups a location text
Applicable(tag) ==
    CASE tag = "geocoding"      -> client
      [] tag = "geocoding_city" -> client /\ Truthy(geoOut.city)
      [] tag = "places"         -> client
      [] tag = "known_full"     -> Truthy(geoOut.loc) /\ Truthy(geoOut.city)
      [] tag = "known_city"     -> Truthy(geoOut.city)
      [] tag = "known_text"     -> Truthy(geoOut.loc)
      [] OTHER                  -> TRUE

\* what the strategy alone produces for the last call's arguments and the
\* client's answers during it
StrategyResult(tag) ==
    CASE tag = "geocoding"      -> TryGoogleGeocoding(geoOut.loc, geoOut.city, geoOut.env.g1)
      [] tag = "geocoding_city" -> TryGoogleGeocoding(geoOut.city, NoneStr, geoOut.env.g2)
      [] tag = "places"         -> TryGooglePlaces(geoOut.loc, geoOut.city, geoOut.env.p)
      [] tag = "known_full"     ->
             TryKnownLocations(geoOut.loc.s \o <<" ">> \o geoOut.city.s)
      [] tag = "known_city"     -> TryKnownLocations(geoOut.city.s)
      [] tag = "known_text"     -> TryKnownLocations(geoOut.loc.s)
      [] OTHER                  -> ExtractAndFallback(geoOut.loc.s)

\* the strategies the claim has the last call attempt, from position i on:
\* every applicable one in order, up to the first that succeeds
RECURSIVE ExpectedTrace(_)
ExpectedTrace(i) ==
    IF i > Len(StrategyOrder) THEN <<>>
    ELSE IF ~Applicable(StrategyOrder[i]) THEN ExpectedTrace(i + 1)
    ELSE IF StrategyResult(StrategyOrder[i]).success THEN <<StrategyOrder[i]>>
    ELSE <<StrategyOrder[i]>> \o ExpectedTrace(i + 1)

\* the last call ran the strategies (it was not answered from the cache)
RanStrategies == geoOut.called /\ ~geoOut.hit

\* a is an initial part of b
IsPrefix(a, b) == Len(a) <= Len(b) /\ SubSeq(b, 1, Len(a)) = a

\* C20: geocode attempts its strategies in the fixed order geocoding(text +
\* city), geocoding(city, when a city hint exists), places, gazetteer(text +
\* city), gazetteer(city), gazetteer(text), substring scan with the default
\* centre; a strategy is attempted only if every earlier one failed, a client
\* exception counting as a failure; the result a call returns is that of the
\* first strategy that succeeds, the default centre when none does.
C20_FixedOrder ==
    RanStrategies =>
        /\ IsPrefix(geoOut.trace, ExpectedTrace(1))
        /\ ~geoOut.raised =>
              /\ geoOut.trace = ExpectedTrace(1)
              /\ geoOut.ret =
                    GeocodedLocation(StrategyResult(geoOut.trace[Len(geoOut.trace)]))

\* a call whose first Google call raised, whose city-only call found nothing
\* and whose place search succeeded: the place search's result is returned
C20_Witness ==
    /\ RanStrategies
    /\ ~geoOut.raised
    /\ geoOut.env.g1 = "raise"
    /\ geoOut.trace = <<"geocoding", "geocoding_city", "places">>
    /\ geoOut.ret.geocode_method = "google_places"

\* the client's answer to the call the strategy makes in the last geocode
AnswerTo(tag) ==
    CASE tag = "geocoding"      -> geoOut.env.g1
      [] tag = "geocoding_city" -> geoOut.env.g2
      [] tag = "places"         -> geoOut.env.p
      [] OTHER                  -> "none"

\* coordinates at and next to the edges of the box, in 1e-4 degrees
EdgeLats == {289999, 290000, 290001, 339999, 340000, 340001}

EdgeLons == {339999, 340000, 340001, 359999, 360000, 360001}

\* C21: every result whose method is google_geocoding or google_places has
\* latitude in [29.0, 34.0] and longitude in [34.0, 36.0] (edges included),
\* and a client answer outside the box is a failure of its strategy: the
\* chain goes on to a later strategy.
C21_BoundingBox ==
    /\ \A lat \in EdgeLats, lon \in EdgeLons :
          InIsraelBounds(lat, lon) <=>
              (lat >= 290000 /\ lat <= 340000 /\ lon >= 340000 /\ lon <= 360000)
    /\ geoOut.called /\ ~geoOut.raised
          /\ geoOut.ret.geocode_method \in {"google_geocoding", "google_places"} =>
              /\ geoOut.ret.latitude >= 290000 /\ geoOut.ret.latitude <= 340000
              /\ geoOut.ret.longitude >= 340000 /\ geoOut.ret.longitude <= 360000
    /\ RanStrategies =>
          \A i \in DOMAIN geoOut.trace :
              AnswerTo(geoOut.trace[i]) = "out" => i < Len(geoOut.trace)

\* the first Google call answered with a point outside the box and the place
\* search's answer inside it was returned
C21_Witness ==
    /\ RanStrategies
    /\ ~geoOut.raised
    /\ geoOut.env.g1 = "out"
    /\ geoOut.trace[1] = "geocoding"
    /\ geoOut.ret.geocode_method = "google_places"
    /\ geoOut.ret.latitude = AnswerPoint(geoOut.env.p).lat

\* longest text the two gazetteer scans are compared on
MaxTextLen == 4

\* every text of up to MaxTextLen characters over the letters of "lod", a
\* capital and the blank
ScanTexts ==
    UNION {[1..n -> {"l", "o", "d", "L", " "}] : n \in 0..MaxTextLen}

\* C25: geocode never returns method text_extraction_fallback: whenever the
\* location text contains a gazetteer key, the gazetteer lookup of the text
\* already succeeds, so a call that reaches the substring scan returns
\* default_fallback.
C25_NoTextExtraction ==
    /\ geoCalls = 0 =>
          \A t \in ScanTexts :
              ExtractAndFallback(t).success => TryKnownLocations(t).success
    /\ (geoOut.called /\ ~geoOut.raised) =>
          /\ geoOut.ret.geocode_method # "text_extraction_fallback"
          /\ (~geoOut.hit /\ geoOut.trace[Len(geoOut.trace)] = "extract")
                => geoOut.ret.geocode_method = "default_fallback"
    /\ \A k \in DOMAIN cache : cache[k].method # "text_extraction_fallback"

\* a call whose location text contains a gazetteer key and whose gazetteer
\* lookup of the text answered with a partial match
C25_Witness ==
    /\ RanStrategies
    /\ ~geoOut.raised
    /\ ExtractAndFallback(geoOut.loc.s).success
    /\ geoOut.trace[Len(geoOut.trace)] = "known_text"
    /\ geoOut.ret.geocode_method = "known_locations_partial"

\* the key the claim gives a pair: lower-cased text + "|" + str(city)
ClaimedKey(a) == Lower(PyStr(a[1]) \o <<"|">> \o PyStr(a[2]))

\* pairs other than the last call's that were resolved before it, returned a
\* result and have the last call's key
KeyMates ==
    {q \in DOMAIN geoSeen :
        /\ q # <<geoOut.loc, geoOut.city>>
        /\ ~geoSeen[q].raised
        /\ ClaimedKey(q) = ClaimedKey(<<geoOut.loc, geoOut.city>>)}

\* C26: distinct argument pairs with one cache key share one entry: the first
\* resolve of a pair whose key an earlier, different pair was resolved under
\* returns that pair's cached result without running any strategy.
C26_PairsShareKey ==
    (geoOut.called /\ ~geoOut.again) =>
        \A q \in KeyMates :
            /\ geoOut.hit /\ ~geoOut.raised
            /\ geoOut.trace = <<>>
            /\ geoOut.ret = geoSeen[q].ret

\* ("xy", "None") resolved after ("xy", None) and answered with the Google
\* result cached for that pair
C26_Witness ==
    /\ geoOut.called /\ ~geoOut.again
    /\ geoOut.city = Some(<<"N", "o", "n", "e">>)
    /\ <<Some(tXy), NoneStr>> \in KeyMates
    /\ geoOut.hit
    /\ geoOut.ret.geocode_method = "google_geocoding"

\* ("x", "y|x") resolved after ("x|y", "x") and answered from its entry
C26_WitnessBar ==
    /\ geoOut.called /\ ~geoOut.again
    /\ geoOut.loc = Some(<<"x">>)
    /\ <<Some(<<"x", "|", "y">>), Some(<<"x">>)>> \in KeyMates
    /\ geoOut.hit

\* results that are not the client's: the gazetteer's and the default centre
FallbackMethods == {"known_locations", "known_locations_partial", "default_fallback"}

\* the pairs resolved before the last call under its key that returned a
\* result: other pairs, and the last call's own pair when it was asked before
ResolvedBefore ==
    KeyMates \cup (IF geoOut.again /\ ~geoSeen[<<geoOut.loc, geoOut.city>>].raised
                   THEN {<<geoOut.loc, geoOut.city>>} ELSE {})

\* C27: every result is cached, not only a successful one: once a resolve of
\* a key ended in the default centre or a gazetteer result, every later
\* resolve of the key on the same Geocoder returns that cached result and
\* makes no client call.
C27_FallbackCached ==
    geoOut.called =>
        \A q \in ResolvedBefore :
            geoSeen[q].ret.geocode_method \in FallbackMethods =>
                /\ geoOut.hit /\ ~geoOut.raised
                /\ geoOut.trace = <<>>
                /\ geoOut.env = NoAnswers
                /\ geoOut.ret = geoSeen[q].ret

\* on a Geocoder with a client, a pair whose first resolve ended in the
\* default centre is resolved again and answered from the cache
C27_Witness ==
    /\ client
    /\ geoOut.called /\ geoOut.again /\ geoOut.hit
    /\ geoOut.ret.geocode_method = "default_fallback"
    /\ geoSeen[<<geoOut.loc, geoOut.city>>].ret.geocode_method = "default_fallback"

(***************************************************************************)
(* Further claims about the ingest pipeline (Spec)                         *)
(***************************************************************************)

\* C12: no sequence of ingests persists an incident with a zero-valued
\* coordinate: every stored document has a non-zero latitude and longitude, a
\* run whose state carries a zero coordinate is rejected and writes nothing,
\* and the geocoding node hands on either a point with both coordinates
\* non-zero or the untouched (0.0, 0.0).
C12_NoZeroCoordinates ==
    /\ \A i \in DOMAIN store : store[i].lat # 0 /\ store[i].lon # 0
    /\ (/\ ingestOut.phase = "done"
        /\ (ingestOut.st.latitude = 0 \/ ingestOut.st.longitude = 0)) =>
          /\ store = ingestOut.before
          /\ ~ingestOut.out.stored_successfully
          /\ ingestOut.out.current_step = "error"
    /\ (store = <<>> /\ ingestOut.phase = "idle") =>
          \A c \in GeocodeNodeCoordinates : c = <<0, 0>> \/ (c[1] # 0 /\ c[2] # 0)

\* C12 witness: a run with the untouched (0.0, 0.0), a summary and a fresh key
\* was rejected for its coordinates while the collection holds an incident
C12_Witness ==
    /\ ingestOut.phase = "done"
    /\ ingestOut.st.latitude = 0
    /\ ingestOut.st.extracted_summary # ""
    /\ ingestOut.out.error = "No valid coordinates"
    /\ store # <<>>
    /\ ~KeyStored(store, ingestOut.st)

\* C13: every incident the ingest pipeline persists has a severity in 1..10.
\* (As stated by the claim; the code violates it.)
C13_SeverityInRange ==
    \A i \in DOMAIN store : store[i].severity_score \in 1..10

\* the run's pipeline state with its event type mapped to `unknown`
AsUnknown(st) == [st EXCEPT !.extracted_event_type = "unknown"]

\* the run's incident is valid and novel once its event type is `unknown`
ValidAndNovel(docs, st) ==
    /\ Validate(st) = ""
    /\ ~KeyStored(docs, st)
    /\ WalkResults(Candidate(AsUnknown(st)), SimilaritySearch(docs, st.extracted_summary)) = 0

\* C14: an event-type string outside the enumeration is mapped to `unknown`
\* and the ingest proceeds: a run that is otherwise valid and novel ends
\* stored, with event type unknown.  (As stated by the claim; the code
\* violates it.)
C14_UnknownTypeStored ==
    (/\ ingestOut.phase = "done"
     /\ ingestOut.st.extracted_event_type \notin EventTypes
     /\ ValidAndNovel(ingestOut.before, ingestOut.st)) =>
        /\ ingestOut.out.current_step = "stored"
        /\ ingestOut.out.stored_successfully
        /\ store = Append(ingestOut.before, store[Len(store)])
        /\ store[Len(store)].event_type = "unknown"

(***************************************************************************)
(* Further claims about calculate_risk and the analyst pipeline (SpecRisk) *)
(***************************************************************************)

\* C15: an incident that has no coordinates is never retained by the filter
\* of calculate_risk, whatever the centre and radius.  (As stated by the
\* claim; the code violates it.)
C15_NoCoordinatesNotRetained ==
    riskOut.done =>
        \A k \in DOMAIN riskIn.incidents :
            ~riskIn.incidents[k].has_coords => ~riskOut.marks[k].written

\* persisted data the claim calls well formed
WellFormed(incident) == Parses(incident) /\ incident.severity_score \in 1..10

\* C16: an incident with an unparsable or missing timestamp or a severity
\* outside 1..10 is skipped: the assessment is the one computed from the
\* other incidents alone.  (As stated by the claim; the code violates it.)
C16_MalformedSkipped ==
    riskOut.done =>
        riskOut.a = CalculateRisk(SelectSeq(riskIn.incidents, WellFormed),
                                  riskIn.center_lat, riskIn.center_lon,
                                  riskIn.radius_km, riskIn.analysis_days)

\* C17: calculate_risk leaves the incident records handed to it unchanged.
\* (As stated by the claim; the code violates it.)
C17_RecordsUnchanged ==
    riskOut.done => \A k \in DOMAIN riskOut.marks : riskOut.marks[k] = NoMark

\* positions of the collection within the query radius whose timestamp lies
\* in the last `days` days
WithinWindow(days) ==
    {k \in DOMAIN riskIn.incidents :
        /\ Parses(riskIn.incidents[k])
        /\ InArea(riskIn.incidents[k], riskIn.center_lat, riskIn.center_lon, QueryRadiusMetres)
        /\ TsInstant(riskIn.incidents[k]) >= Instant(Now) - days * 24}

\* C18: the query-time assessment scores exactly the incidents within the
\* radius whose timestamp is within the last W days, W being the requested
\* window, also for W > 30.  (As stated by the claim; the code violates it.)
C18_WindowHonoured ==
    (queryOut.done /\ ~queryOut.raised) =>
        queryOut.a.total_events = Cardinality(WithinWindow(QueryDays))

\* the incident list with the severity of its k-th incident set to sv
RaiseSeverity(incidents, k, sv) == [incidents EXCEPT ![k].severity_score = sv]

\* severities an incident is raised to
RaisedSeverities == {9, 15}

\* the risk_score of the finished call had incident k had severity sv
ScoreWithSeverity(k, sv) ==
    CalculateRisk(RaiseSeverity(riskIn.incidents, k, sv), riskIn.center_lat,
                  riskIn.center_lon, riskIn.radius_km, riskIn.analysis_days).risk_score

\* C19: raising the severity of any single incident, every other input held
\* constant, never lowers the risk_score calculate_risk returns.
C19_SeverityMonotone ==
    riskOut.done =>
        \A k \in DOMAIN riskIn.incidents :
            \A sv \in {x \in RaisedSeverities : x > riskIn.incidents[k].severity_score} :
                ScoreWithSeverity(k, sv) >= riskOut.a.risk_score

\* C19 witness: raising one incident's severity raises the score of the
\* finished call, and raising another's leaves it as it is
C19_Witness ==
    /\ riskOut.done
    /\ \E k \in DOMAIN riskIn.incidents :
          /\ riskIn.incidents[k].severity_score < 9
          /\ ScoreWithSeverity(k, 9) > riskOut.a.risk_score
    /\ \E k \in DOMAIN riskIn.incidents :
          /\ riskIn.incidents[k].severity_score < 9
          /\ ScoreWithSeverity(k, 9) = riskOut.a.risk_score

NoSummary == pipeOut.e.summary = ""

NoPlace == pipeOut.e.location = <<>> /\ pipeOut.e.city = <<>>

ClaimedRadius == OrDefaultNoneOnly(riskIn.radius_km, DefaultRadiusMetres)

ClaimedDays == OrDefaultNoneOnly(riskIn.analysis_days, AnalysisDays)

\* the incident lies in that window and radius
ClaimedRetained(i) ==
    /\ Parses(i)
    /\ TsInstant(i) >= Instant(Now) - ClaimedDays * 24
    /\ i.has_coords
    /\ Haversine(riskIn.center_lat, riskIn.center_lon, i.lat, i.lon) <= ClaimedRadius

\* the zero assessment
ZeroAssessment(a) ==
    /\ a.risk_score = 0 /\ a.risk_level = "minimal"
    /\ a.total_events = 0 /\ a.events_last_24h = 0 /\ a.events_last_7d = 0

RiskWith(radius_km, analysis_days) ==
    CalculateRisk(riskIn.incidents, riskIn.center_lat, riskIn.center_lon,
                  radius_km, analysis_days)

\* C30: calculate_risk replaces a radius_km of 0 by the default 2.0 km and an
\* analysis_days of 0 by the default 30 days, as it does when they are absent;
\* with radius 0 an incident within 2 km of the centre is retained and counted.
C30_ZeroIsDefault ==
    riskOut.done =>
        /\ riskIn.radius_km = 0 =>
              /\ riskOut.a = RiskWith(DefaultRadiusMetres, riskIn.analysis_days)
              /\ riskOut.a = RiskWith(NoneNumber, riskIn.analysis_days)
              /\ riskOut.a.radius_km = 2000
        /\ riskIn.analysis_days = 0 =>
              /\ riskOut.a = RiskWith(riskIn.radius_km, AnalysisDays)
              /\ riskOut.a = RiskWith(riskIn.radius_km, NoneNumber)
        /\ (riskIn.radius_km = 0 /\ riskIn.analysis_days = 0) =>
              \A k \in DOMAIN riskIn.incidents :
                  LET i == riskIn.incidents[k] IN
                  (/\ Parses(i) /\ i.has_coords
                   /\ TsInstant(i) >= Instant(Now) - 30 * 24
                   /\ Haversine(riskIn.center_lat, riskIn.center_lon, i.lat, i.lon) <= 2000)
                      => riskOut.marks[k].written

\* radius 0 and window 0: the single shooting 989 m from the centre is
\* retained and counted
C30_Witness ==
    /\ riskOut.done
    /\ riskIn.radius_km = 0 /\ riskIn.analysis_days = 0
    /\ Len(riskIn.incidents) = 1
    /\ riskIn.incidents[1].lat = 320089
    /\ riskOut.marks[1].written
    /\ riskOut.a.total_events = 1

(***************************************************************************)
(* Further claims about check_similar_incident (SpecSim)                   *)
(***************************************************************************)

\* the same UTC instant in the other form: a naive datetime for an aware
\* one, an aware UTC datetime for a naive one
OtherForm(dt) == IF dt.aware THEN NaiveTime(Instant(dt)) ELSE AwareTime(dt.t, 0)

\* the stored timestamp string written the other way, with or without offset
OtherStamp(stamp) ==
    IF stamp.kind = "iso" THEN IsoFormat(OtherForm(FromIsoFormat(stamp))) ELSE stamp

RestampedResults ==
    [k \in DOMAIN simIn.results |->
        [simIn.results[k] EXCEPT !.meta.timestamp = OtherStamp(@)]]

\* the stored timestamps rewritten leave the outcome as it is
StoredFormIrrelevant ==
    simOut.done =>
        simOut.id = CheckSimilarIncident(simIn.cand, RestampedResults, simIn.raised)

EmptyCityCase(k) ==
    LET entry == simIn.results[k] IN
    /\ BaseTest(simIn.cand, entry)
    /\ (simIn.cand.city = <<>> \/ entry.meta.city = <<>>)
    /\ (~Truthy(simIn.cand.street) \/ entry.meta.street = <<>>)

\* C28: with an empty city on either side and a street missing on either
\* side, an entry that passes the similarity, type and time tests makes
\* check_similar_incident report a near duplicate at any distance: that entry
\* or one ranked before it.
C28_EmptyCityMatchesAnywhere ==
    (simOut.done /\ ~simIn.raised) =>
        \A k \in DOMAIN simIn.results :
            EmptyCityCase(k) =>
                simOut.id \in {simIn.results[j].meta.incident_id : j \in 1..k}

\* a candidate without city and a stored incident 3 km away in Haifa: reported
C28_Witness ==
    /\ simOut.done /\ ~simIn.raised
    /\ Len(simIn.results) = 1
    /\ EmptyCityCase(1)
    /\ simIn.cand.city = <<>>
    /\ simIn.results[1].meta.city = tHaifa
    /\ simIn.results[1].meta.lat = 320270
    /\ simOut.id = simIn.results[1].meta.incident_id

\* a candidate in Haifa and a stored incident 3 km away without city: reported
C28_WitnessStored ==
    /\ simOut.done /\ ~simIn.raised
    /\ Len(simIn.results) = 1
    /\ EmptyCityCase(1)
    /\ simIn.cand.city = tHaifa
    /\ simIn.results[1].meta.city = <<>>
    /\ simIn.results[1].meta.lat = 320270
    /\ simOut.id = simIn.results[1].meta.incident_id

====
